---- MODULE Spec2Model ----
(***************************************************************************)
(* Ingestion - deduplication - delivery pipeline of the job-hunt bot.      *)
(*                                                                         *)
(* The cron handler (api/cron/daily-job-fetch) fetches listings, stores    *)
(* them through DeduplicationEngine.deduplicateAndStore inside one         *)
(* transaction, then for every registered user reads the unsent listings   *)
(* and hands them to NotificationDispatcher.sendNotificationsToUser, which *)
(* marks and sends inside one transaction per user.                        *)
(*                                                                         *)
(* Strings are sequences of one-character strings, so that toLowerCase and *)
(* trim are computed.  SHA-256 is taken to be injective: a hash is         *)
(* represented by the string that is digested.                             *)
(*                                                                         *)
(* The database is PostgreSQL at READ COMMITTED: a statement sees the      *)
(* committed rows and the rows its own transaction wrote; INSERT ... ON    *)
(* CONFLICT DO NOTHING waits while another open transaction holds an       *)
(* uncommitted row with the same key; a failed statement aborts its        *)
(* transaction, every later statement of it fails, and COMMIT of an        *)
(* aborted transaction rolls back without an error.                        *)
(***************************************************************************)
EXTENDS Integers, Sequences, FiniteSets, Bags, TLC

\* ------------------------------------------------------------------ bounds
\* Longest batch one run's fetchAllJobs returns.
MaxBatch == 2
\* The clock advances in steps of TickHours up to MaxClock (hours).
TickHours == 12
MaxClock == 36
\* The channel counts sends per (user, listing) up to MaxSends.
MaxSends == 2
\* Whitespace characters added on either side of a field (hash variants).
MaxPad == 1
\* Include keywords of a filter policy.
MaxKeywords == 2
\* Postings one source returns in one call.
MaxRaw == 2
\* words of a title
MaxWords == 3

\* ------------------------------------------------------- program constants
\* jobs.ts: WHERE j.posted_at >= NOW() - INTERVAL '24 hours'
RecencyHours == 24
\* config: JOB_FETCH_LOOKBACK_HOURS, default 24
jobFetchLookbackHours == 24
\* config.ts: parseNumber(process.env.MAX_JOBS_PER_SOURCE, 50)
maxJobsPerSourceDefault == 50
\* config: MAX_NOTIFICATIONS_PER_USER (10 by default); the deployment modelled
\* sets it to a small value so that the cap is reached.
maxNotificationsPerUser == 2

\* ----------------------------------------------------------------- strings
Whitespace == {" "}

\* String.prototype.toLowerCase, one character
LowerChar(c) ==
  CASE c = "A" -> "a"
    [] c = "D" -> "d"
    [] c = "J" -> "j"
    [] c = "M" -> "m"
    [] c = "O" -> "o"
    [] c = "R" -> "r"
    [] c = "S" -> "s"
    [] c = "V" -> "v"
    [] OTHER -> c

\* String.prototype.toUpperCase, one character (used to build case variants)
UpperChar(c) ==
  CASE c = "a" -> "A"
    [] c = "d" -> "D"
    [] c = "j" -> "J"
    [] c = "m" -> "M"
    [] c = "o" -> "O"
    [] c = "r" -> "R"
    [] c = "s" -> "S"
    [] c = "v" -> "V"
    [] OTHER -> c

toLowerCase(s) == [i \in DOMAIN s |-> LowerChar(s[i])]

RECURSIVE TrimStart(_)
TrimStart(s) ==
  IF s # <<>> /\ Head(s) \in Whitespace THEN TrimStart(Tail(s)) ELSE s

RECURSIVE TrimEnd(_)
TrimEnd(s) ==
  IF s # <<>> /\ s[Len(s)] \in Whitespace
  THEN TrimEnd(SubSeq(s, 1, Len(s) - 1))
  ELSE s

\* String.prototype.trim
trim(s) == TrimEnd(TrimStart(s))

\* ---------------------------------------------------------------- listings
\* the values extractSeniority returns; the empty string stands for undefined
senior == <<"s", "e", "n", "i", "o", "r">>

junior == <<"j", "u", "n", "i", "o", "r">>

mid == <<"m", "i", "d">>

middle == <<"m", "i", "d", "d", "l", "e">>

NoSeniority == <<>>

\* NormalizedJob (types/job.ts)
Job(t, c, l, p, u, at, sen) ==
  [title |-> t, company |-> c, location |-> l, platform |-> p, url |-> u,
   postedAt |-> at, seniority |-> sen]

\* Faulty variant: the three fields are lower-cased but not trimmed
generateJobHashUntrimmed(job) ==
  toLowerCase(job.title) \o <<"|">> \o
  toLowerCase(job.company) \o <<"|">> \o
  toLowerCase(job.location)

\* Faulty variant: the three fields are trimmed but not lower-cased
generateJobHashCaseSensitive(job) ==
  trim(job.title) \o <<"|">> \o trim(job.company) \o <<"|">> \o trim(job.location)

\* generateJobHash: sha256 of
\* `${title.toLowerCase().trim()}|${company.toLowerCase().trim()}|${location.toLowerCase().trim()}`
generateJobHash(job) ==
  trim(toLowerCase(job.title)) \o <<"|">> \o
  trim(toLowerCase(job.company)) \o <<"|">> \o
  trim(toLowerCase(job.location))

\* The postings the sources can return.  J1 and J2 are one job cross-posted
\* on two platforms with different case and padding; J3 is another job.
J1 == Job(<<"D", "v", " ">>, <<"A">>, <<"R">>, "remoteok", "u1", 0, NoSeniority)
J2 == Job(<<"d", "v">>, <<"a">>, <<" ", "r">>, "weworkremotely", "u2", TickHours, NoSeniority)
J3 == Job(<<"O", "p">>, <<"A">>, <<"R">>, "remoteok", "u3", TickHours, NoSeniority)
Pool == {J1, J2, J3}

Hashes == {generateJobHash(j) : j \in Pool}

\* Telegram ids of the people who may register.
Users == {1, 2}

\* Invocations of the cron handler that may overlap.
Runs == {"A", "B"}

\* ------------------------------------------------------------------- state
VARIABLES
  now,          \* wall clock, hours
  jobsTable,    \* committed rows of jobs (a bag of JobWithHash)
  notifTable,   \* committed rows of user_job_notifications (a bag)
  usersTable,   \* committed rows of users (a bag)
  tx,           \* per run: the open transaction and its uncommitted rows
  run,          \* per run: the handler's position and locals
  sendLog,      \* the channel: sendMessage calls per (user, hash)
  observedInserts, \* history: hashes for which a committed batch saw inserted=true
  harness       \* driver state of the unit specifications

vars == <<now, jobsTable, notifTable, usersTable, tx, run, sendLog,
          observedInserts, harness>>

\* ---------------------------------------------------------------- database
Row(job) ==
  [hash |-> generateJobHash(job), title |-> job.title, company |-> job.company,
   location |-> job.location, platform |-> job.platform, url |-> job.url,
   postedAt |-> job.postedAt, seniority |-> job.seniority]

NotifRow(u, h) == [user_id |-> u, job_hash |-> h]

\* number of rows of a bag that satisfy a key predicate
RECURSIVE SumCopies(_, _)
SumCopies(bag, rows) ==
  IF rows = {} THEN 0
  ELSE LET x == CHOOSE y \in rows : TRUE
       IN CopiesIn(x, bag) + SumCopies(bag, rows \ {x})

JobRowsWith(bag, h) == SumCopies(bag, {x \in BagToSet(bag) : x.hash = h})
NotifRowsWith(bag, u, h) == CopiesIn(NotifRow(u, h), bag)

NoTx == [active |-> FALSE, aborted |-> FALSE, jobs |-> EmptyBag, notifs |-> EmptyBag]

\* client.query('BEGIN') of withTransaction
Begin == [active |-> TRUE, aborted |-> FALSE, jobs |-> EmptyBag, notifs |-> EmptyBag]

\* Faulty variant: COMMIT is not issued, the rows go when the connection is released
CommittedRowsLost(t, field) == EmptyBag

\* Rows that COMMIT makes durable: an aborted transaction commits nothing.
CommittedRows(t, field) == IF t.aborted THEN EmptyBag ELSE t[field]

\* Faulty variant: the statements ran outside a transaction: ROLLBACK undoes nothing
RolledBackRowsKept(t, field) == t[field]

\* Rows that ROLLBACK (or the loss of the connection) makes durable: none.
RolledBackRows(t, field) == EmptyBag

\* Faulty variant: no unique index on hash, only the statement's own
\* transaction is consulted
JobConflictOwnOnly(r, h) == JobRowsWith(tx[r].jobs, h) > 0

\* ON CONFLICT (hash): a row with the key is visible to the statement
JobConflict(r, h) == JobRowsWith(jobsTable (+) tx[r].jobs, h) > 0

\* Faulty variant: a plain INSERT after a SELECT found no row: nothing arbitrates
\* between two open transactions
JobWaitsNever(r, h) == FALSE

\* the statement waits for another transaction's uncommitted row with the key
JobWaits(r, h) == \E q \in Runs \ {r} : tx[q].active /\ JobRowsWith(tx[q].jobs, h) > 0

\* Faulty variant: the statement sees only the rows of its own transaction
NotifConflictOwnOnly(r, u, h) == NotifRowsWith(tx[r].notifs, u, h) > 0

\* ON CONFLICT (user_id, job_hash): a row with the key is visible
NotifConflict(r, u, h) == NotifRowsWith(notifTable (+) tx[r].notifs, u, h) > 0

\* Faulty variant: no unique index to wait on, the statement never blocks
NotifWaitsNever(r, u, h) == FALSE

\* the statement waits for another transaction's uncommitted row with the key
NotifWaits(r, u, h) ==
  \E q \in Runs \ {r} : tx[q].active /\ NotifRowsWith(tx[q].notifs, u, h) > 0

\* Faulty variant: INSERT without ON CONFLICT (hash) DO NOTHING on a table without
\* the primary key
insertJobAlways(r, job) ==
  [inserted |-> TRUE, hash |-> generateJobHash(job),
   rows |-> tx[r].jobs (+) SetToBag({Row(job)})]

\* JobsRepository.insertJobIfNotExists: the statement's result and the rows
\* the transaction holds afterwards
insertJobIfNotExists(r, job) ==
  LET hash == generateJobHash(job)
      inserted == ~JobConflict(r, hash)
  IN [inserted |-> inserted, hash |-> hash,
      rows |-> IF inserted THEN tx[r].jobs (+) SetToBag({Row(job)}) ELSE tx[r].jobs]

\* Faulty variant: INSERT without ON CONFLICT (user_id, job_hash) DO NOTHING on a
\* table without the composite primary key
markAsSentAlways(r, userId, jobHash) ==
  [wasNew |-> TRUE, rows |-> tx[r].notifs (+) SetToBag({NotifRow(userId, jobHash)})]

\* NotificationsRepository.markAsSent
markAsSent(r, userId, jobHash) ==
  LET wasNew == ~NotifConflict(r, userId, jobHash)
  IN [wasNew |-> wasNew,
      rows |-> IF wasNew THEN tx[r].notifs (+) SetToBag({NotifRow(userId, jobHash)})
               ELSE tx[r].notifs]

\* ORDER BY j.posted_at DESC: the orders of a set of rows the query may return
RECURSIVE NewestFirst(_)
NewestFirst(rows) ==
  IF rows = {} THEN {<<>>}
  ELSE UNION {{<<x>> \o rest : rest \in NewestFirst(rows \ {x})} :
              x \in {y \in rows : \A z \in rows : z.postedAt <= y.postedAt}}

Take(s, n) == SubSeq(s, 1, IF Len(s) < n THEN Len(s) ELSE n)

\* Faulty variant: the query without `j.posted_at >= NOW() - INTERVAL '24 hours'`
getUnsentJobsOfAnyAge(userId, limit) ==
  LET eligible == {j \in BagToSet(jobsTable) :
                     NotifRowsWith(notifTable, userId, j.hash) = 0}
  IN {Take(s, limit) : s \in NewestFirst(eligible)}

\* Faulty variant: the candidates are the listings the sources offer, stored
\* or not, instead of the rows of jobs
getUnsentJobsOffered(userId, limit) ==
  LET eligible == {j \in {Row(x) : x \in Pool} :
                     /\ j.postedAt >= now - RecencyHours
                     /\ NotifRowsWith(notifTable, userId, j.hash) = 0}
  IN {Take(s, limit) : s \in NewestFirst(eligible)}

\* Faulty variant: the query without its NOT EXISTS clause on the ledger
getUnsentJobsIgnoringLedger(userId, limit) ==
  LET eligible == {j \in BagToSet(jobsTable) : j.postedAt >= now - RecencyHours}
  IN {Take(s, limit) : s \in NewestFirst(eligible)}

\* JobsRepository.getUnsentJobsForUser: the results the query may return
getUnsentJobsForUser(userId, limit) ==
  LET eligible == {j \in BagToSet(jobsTable) :
                     /\ j.postedAt >= now - RecencyHours
                     /\ NotifRowsWith(notifTable, userId, j.hash) = 0}
  IN {Take(s, limit) : s \in NewestFirst(eligible)}

\* UsersRepository.getAllUsers (ORDER BY created_at DESC)
RECURSIVE NewestUsersFirst(_)
NewestUsersFirst(rows) ==
  IF rows = {} THEN {<<>>}
  ELSE UNION {{<<x.telegram_id>> \o rest : rest \in NewestUsersFirst(rows \ {x})} :
              x \in {y \in rows : \A z \in rows : z.created_at <= y.created_at}}

getAllUsers == NewestUsersFirst(BagToSet(usersTable))

\* Faulty variant: INSERT without ON CONFLICT (telegram_id) DO UPDATE on a table
\* without the primary key
insertUser(table, id, name) ==
  table (+) SetToBag({[telegram_id |-> id, username |-> name, created_at |-> now]})

\* UsersRepository.upsertUser
upsertUser(table, id, name) ==
  IF \E x \in BagToSet(table) : x.telegram_id = id
  THEN LET old == CHOOSE x \in BagToSet(table) : x.telegram_id = id
       IN (table (-) SetToBag({old})) (+)
          SetToBag({[telegram_id |-> id, username |-> name, created_at |-> old.created_at]})
  ELSE table (+) SetToBag({[telegram_id |-> id, username |-> name, created_at |-> now]})

\* the elements of a sequence, with their multiplicities
RECURSIVE SeqToBag(_)
SeqToBag(s) == IF s = <<>> THEN EmptyBag ELSE SetToBag({Head(s)}) (+) SeqToBag(Tail(s))

\* ------------------------------------------------------------- the handler
\* Locals of one invocation of the cron handler and of the calls it makes.
IdleRun ==
  [pc |-> "idle",
   jobs |-> <<>>, idx |-> 0,             \* deduplicateAndStore: batch, next element
   inserted |-> <<>>, duplicates |-> <<>>, \* insertJobsIfNotExists: result lists
   calls |-> <<>>,                        \* history: insertJobIfNotExists results
   overlap |-> FALSE,                     \* history: BEGIN met another open batch
   fetched |-> 0, stored |-> 0, dups |-> 0, \* handler: jobs.length, stored, duplicates
   users |-> <<>>, ui |-> 0,              \* handler: users, index of the next user
   user |-> 0, limited |-> <<>>, ci |-> 0, \* sendNotificationsToUser: candidates
   wasNew |-> FALSE,                      \* result of the last markAsSent
   sentCount |-> 0, ret |-> -1,           \* its counter and its return value
   marks |-> {}, sends |-> <<>>,          \* history of the call: new marks, sends
   thrown |-> <<>>,                       \* history of the call: sends that threw
   total |-> 0,                           \* handler: totalNotificationsSent
   queried |-> <<>>,                      \* history: users getUnsentJobsForUser was called for
   caught |-> {},                         \* history: users whose processing threw
   resp |-> [status |-> 0]]               \* the response written

\* res.status(200).json({success: true, stats: {...}})
Success(fetched, stored, dups, sent) ==
  [status |-> 200, jobsFetched |-> fetched, jobsStored |-> stored,
   duplicates |-> dups, notificationsSent |-> sent, refused |-> 0]

\* Faulty variant: the error escapes the handler and nothing is written
NoResponse == [status |-> 0, error |-> "message", refused |-> 0]

\* res.status(500).json({success: false, error: error.message})
Failure == [status |-> 500, error |-> "message", refused |-> 0]

\* res.status(401).json({error: 'Unauthorized'})
Unauthorized == [status |-> 401, error |-> "Unauthorized", refused |-> 0]

\* res.status(...).json(body) on a response that may have been sent: the
\* platform sends one response per request, a second json() throws and the
\* response that was sent stands (refused counts the calls that threw)
json(sent, body) == IF sent.status = 0 THEN body ELSE [sent EXCEPT !.refused = @ + 1]

\* the batches fetchAllJobs may return: every source drops postedAt < since,
\* and a posting is returned at most once per run
Batches(since) ==
  UNION {{b \in [1..n -> {j \in Pool : j.postedAt >= since}] :
            \A i, k \in 1..n : b[i] = b[k] => i = k} : n \in 0..MaxBatch}

\* Faulty variant: the result of markAsSent is ignored
SendAfterAnyMark(wasNew) == TRUE

\* sendNotificationsToUser: `if (!wasNew) continue` - send only a new mark
SendAfterMark(wasNew) == wasNew


\* jobs.slice(0, this.config.maxNotificationsPerUser)
LimitedJobs(jobs) == Take(jobs, maxNotificationsPerUser)

\* locals of a run without those of its last sendNotificationsToUser call
NoCall(rec) ==
  [rec EXCEPT !.user = 0, !.limited = <<>>, !.ci = 0, !.wasNew = FALSE,
     !.sentCount = 0, !.ret = -1, !.marks = {}, !.sends = <<>>, !.thrown = <<>>]

\* sendNotificationsToUser, lines 131-140: an empty list returns 0 at once,
\* otherwise the list is capped and the transaction begins
EnterDispatch(rec, u, jobs) ==
  IF Len(jobs) = 0
  THEN [NoCall(rec) EXCEPT !.user = u, !.ret = 0]
  ELSE [NoCall(rec) EXCEPT !.pc = "mark", !.user = u,
          !.limited = LimitedJobs(jobs), !.ci = 1]

Bump(n) == IF n < MaxSends THEN n + 1 ELSE MaxSends

\* Faulty variant: the counter is incremented before the send is awaited
sentCountBeforeSend(sentCount, threw) == sentCount + 1

\* sendNotificationsToUser, lines 159-160: sentCount++ follows the awaited
\* send, so a send that throws skips it
sentCountAfterSend(sentCount, threw) == IF threw THEN sentCount ELSE sentCount + 1

\* handler, lines 81-101: fetchAllJobs returns a batch, then
\* deduplicateAndStore is entered (an empty batch returns at once, lines 258-260)
EnterStore(r, batches) ==
  \E batch \in batches :
    IF Len(batch) = 0
    THEN /\ run' = [run EXCEPT ![r] = [IdleRun EXCEPT !.pc = "users"]]
         /\ UNCHANGED tx
    ELSE /\ run' = [run EXCEPT ![r] =
              [IdleRun EXCEPT !.pc = "dedup", !.jobs = batch, !.idx = 1,
                 !.overlap = \E q \in Runs \ {r} : tx[q].active /\ tx[q].jobs # EmptyBag]]
         /\ tx' = [tx EXCEPT ![r] = Begin]

\* the Authorization header of a request
NoHeader == [present |-> FALSE, value |-> <<>>]

Header(value) == [present |-> TRUE, value |-> value]

\* `Bearer ${cronSecret}`
Bearer(cronSecret) == <<"B", "e", "a", "r", "e", "r", " ">> \o cronSecret

\* Faulty variant: only a header that is present is compared
authorizedUnlessDifferent(cronSecret, authHeader) ==
  ~(cronSecret # <<>> /\ authHeader.present /\ authHeader.value # Bearer(cronSecret))

\* handler, line 24: cronSecret && authHeader !== `Bearer ${cronSecret}` rejects
authorized(cronSecret, authHeader) ==
  ~(cronSecret # <<>> /\ (~authHeader.present \/ authHeader.value # Bearer(cronSecret)))

\* the platform toggles of the configuration
Toggles(remoteOK, wwr, wuzzuf) ==
  [enableRemoteOK |-> remoteOK, enableWWR |-> wwr, enableWuzzuf |-> wuzzuf]

\* Faulty variant: the toggles are ignored
createAllJobSources(config) == <<"remoteok", "weworkremotely", "wuzzuf">>

\* createJobSources: the names of the enabled sources, in order
createJobSources(config) ==
  (IF config.enableRemoteOK THEN <<"remoteok">> ELSE <<>>)
  \o (IF config.enableWWR THEN <<"weworkremotely">> ELSE <<>>)
  \o (IF config.enableWuzzuf THEN <<"wuzzuf">> ELSE <<>>)

\* a request to the trigger and the environment it meets: CRON_SECRET, the
\* Authorization header, whether the required variables are set (loadConfig
\* throws otherwise) and the platform toggles
Request(cronSecret, authHeader, envOk, config) ==
  [cronSecret |-> cronSecret, authHeader |-> authHeader, envOk |-> envOk,
   config |-> config]

\* what is durable and what the channel has carried
Stored == [jobs |-> jobsTable, notifs |-> notifTable, sent |-> sendLog]

\* handler, lines 20-101: the whole entry of the one invocation a behaviour
\* of the handler specifications follows. The request is
\* rejected (401), loadConfig throws (500), no source is enabled (200 with
\* zeros), or the sources are fetched and deduplicateAndStore is entered.
Invoke(r, requests, batches) ==
  /\ run[r].pc \in {"idle", "done"}
  /\ ~harness.seen
  /\ \E req \in requests :
       LET passes == authorized(req.cronSecret, req.authHeader)
           sources == createJobSources(req.config)
       IN /\ harness' = [harness EXCEPT
               !.seen = TRUE, !.req = req,
               !.fetched = passes /\ req.envOk /\ sources # <<>>,
               !.before = Stored]
          /\ IF ~passes
             THEN /\ run' = [run EXCEPT ![r] =
                       [IdleRun EXCEPT !.pc = "done", !.resp = Unauthorized]]
                  /\ UNCHANGED tx
             ELSE IF ~req.envOk
             THEN /\ run' = [run EXCEPT ![r] =
                       [IdleRun EXCEPT !.pc = "done", !.resp = Failure]]
                  /\ UNCHANGED tx
             ELSE IF sources = <<>>
             THEN /\ run' = [run EXCEPT ![r] =
                       [IdleRun EXCEPT !.pc = "done", !.resp = Success(0, 0, 0, 0)]]
                  /\ UNCHANGED tx
             ELSE EnterStore(r, batches)
  /\ UNCHANGED <<now, jobsTable, notifTable, usersTable, sendLog, observedInserts>>

\* handler, lines 30-101 of an authorized, configured invocation: fetch, then
\* enter deduplicateAndStore
StartRun(r, batches) ==
  /\ run[r].pc \in {"idle", "done"}
  /\ EnterStore(r, batches)
  /\ UNCHANGED <<now, jobsTable, notifTable, usersTable, sendLog, observedInserts, harness>>

\* insertJobsIfNotExists: one iteration of the loop
DedupInsert(r) ==
  /\ run[r].pc = "dedup"
  /\ run[r].idx <= Len(run[r].jobs)
  /\ LET job == run[r].jobs[run[r].idx]
         res == insertJobIfNotExists(r, job)
     IN /\ ~JobWaits(r, res.hash)
        /\ tx' = [tx EXCEPT ![r].jobs = res.rows]
        /\ run' = [run EXCEPT
             ![r].idx = @ + 1,
             ![r].inserted = IF res.inserted THEN Append(@, res.hash) ELSE @,
             ![r].duplicates = IF res.inserted THEN @ ELSE Append(@, res.hash),
             ![r].calls = Append(@, [hash |-> res.hash, inserted |-> res.inserted])]
  /\ UNCHANGED <<now, jobsTable, notifTable, usersTable, sendLog, observedInserts, harness>>

\* withTransaction: COMMIT of the batch; deduplicateAndStore returns
DedupCommit(r) ==
  /\ run[r].pc = "dedup"
  /\ run[r].idx > Len(run[r].jobs)
  /\ jobsTable' = jobsTable (+) CommittedRows(tx[r], "jobs")
  /\ observedInserts' = observedInserts (+) SeqToBag(run[r].inserted)
  /\ tx' = [tx EXCEPT ![r] = NoTx]
  /\ run' = [run EXCEPT ![r].pc = "users", ![r].fetched = Len(run[r].jobs),
                          ![r].stored = Len(run[r].inserted),
                          ![r].dups = Len(run[r].duplicates)]
  /\ UNCHANGED <<now, notifTable, usersTable, sendLog, harness>>

\* a statement of the batch (an INSERT or the COMMIT) fails: ROLLBACK, the
\* error is rethrown and the handler answers 500
DedupFault(r) ==
  /\ run[r].pc = "dedup"
  /\ jobsTable' = jobsTable (+) RolledBackRows(tx[r], "jobs")
  /\ tx' = [tx EXCEPT ![r] = NoTx]
  /\ run' = [run EXCEPT ![r] = [IdleRun EXCEPT !.pc = "done", !.resp = Failure,
                                   !.calls = run[r].calls]]
  /\ UNCHANGED <<now, notifTable, usersTable, sendLog, observedInserts, harness>>

\* handler, lines 105-111: getAllUsers
GetAllUsers(r) ==
  /\ run[r].pc = "users"
  /\ \E us \in getAllUsers :
       run' = [run EXCEPT ![r] =
         [IdleRun EXCEPT !.pc = "unsent", !.users = us, !.ui = 1,
            !.fetched = run[r].fetched, !.stored = run[r].stored,
            !.dups = run[r].dups]]
  /\ UNCHANGED <<now, jobsTable, notifTable, usersTable, tx, sendLog, observedInserts, harness>>

\* handler, lines 115-130: getUnsentJobsForUser, then enter
\* sendNotificationsToUser (lines 131-140 of the dispatcher) when it is not empty
GetUnsent(r) ==
  /\ run[r].pc = "unsent"
  /\ run[r].ui <= Len(run[r].users)
  /\ LET u == run[r].users[run[r].ui]
     IN \E unsentJobs \in getUnsentJobsForUser(u, maxNotificationsPerUser) :
          IF Len(unsentJobs) = 0
          THEN /\ run' = [run EXCEPT ![r] =
                    [NoCall(@) EXCEPT !.ui = @ + 1, !.queried = Append(@, u)]]
               /\ UNCHANGED tx
          ELSE /\ run' = [run EXCEPT ![r] =
                    [EnterDispatch(@, u, unsentJobs) EXCEPT !.queried = Append(@, u)]]
               /\ tx' = [tx EXCEPT ![r] = Begin]
  /\ UNCHANGED <<now, jobsTable, notifTable, usersTable, sendLog, observedInserts, harness>>

\* Faulty variant: no try around the user's processing, the error reaches the
\* handler's outer catch
rethrowUserError(rec, u) ==
  [rec EXCEPT !.pc = "done", !.resp = Failure, !.caught = @ \cup {u}]

\* handler, lines 131-136: the error of one user is logged, the loop goes on
catchUserError(rec, u) ==
  [rec EXCEPT !.pc = "unsent", !.ui = @ + 1, !.caught = @ \cup {u}]

\* getUnsentJobsForUser throws (the query fails): caught per user
GetUnsentFault(r) ==
  /\ run[r].pc = "unsent"
  /\ run[r].ui <= Len(run[r].users)
  /\ LET u == run[r].users[run[r].ui]
     IN run' = [run EXCEPT ![r] =
          catchUserError([NoCall(@) EXCEPT !.queried = Append(@, u)], u)]
  /\ UNCHANGED <<now, jobsTable, notifTable, usersTable, tx, sendLog, observedInserts, harness>>

\* pool.connect() or getAllUsers throws: the connection, if any, is released
\* (finally, line 174) and the outer catch answers 500 (lines 176-184)
GetAllUsersFault(r) ==
  /\ run[r].pc = "users"
  /\ run' = [run EXCEPT ![r] = [IdleRun EXCEPT !.pc = "done", !.resp = Failure]]
  /\ UNCHANGED <<now, jobsTable, notifTable, usersTable, tx, sendLog, observedInserts, harness>>

\* sendNotificationsToUser, lines 143-156: markAsSent for the next candidate
MarkAsSent(r) ==
  /\ run[r].pc = "mark"
  /\ run[r].ci <= Len(run[r].limited)
  /\ ~tx[r].aborted
  /\ LET h == run[r].limited[run[r].ci].hash
         res == markAsSent(r, run[r].user, h)
     IN /\ ~NotifWaits(r, run[r].user, h)
        /\ tx' = [tx EXCEPT ![r].notifs = res.rows]
        /\ run' = [run EXCEPT
             ![r].wasNew = res.wasNew,
             ![r].marks = IF res.wasNew THEN @ \cup {h} ELSE @,
             ![r].pc = IF SendAfterMark(res.wasNew) THEN "send" ELSE "mark",
             ![r].ci = IF SendAfterMark(res.wasNew) THEN @ ELSE @ + 1]
  /\ UNCHANGED <<now, jobsTable, notifTable, usersTable, sendLog, observedInserts, harness>>

\* markAsSent throws (the statement fails, or the transaction is already
\* aborted): caught by the inner try, the loop goes on
MarkFault(r) ==
  /\ run[r].pc = "mark"
  /\ run[r].ci <= Len(run[r].limited)
  /\ tx' = [tx EXCEPT ![r].aborted = TRUE]
  /\ run' = [run EXCEPT ![r].ci = @ + 1, ![r].wasNew = FALSE]
  /\ UNCHANGED <<now, jobsTable, notifTable, usersTable, sendLog, observedInserts, harness>>

\* sendNotificationsToUser, lines 158-160: sendJobNotification returns
Send(r) ==
  /\ run[r].pc = "send"
  /\ LET h == run[r].limited[run[r].ci].hash
     IN /\ sendLog' = [sendLog EXCEPT ![run[r].user][h] = Bump(@)]
        /\ run' = [run EXCEPT ![r].pc = "mark", ![r].ci = @ + 1,
                                ![r].sentCount = sentCountAfterSend(@, FALSE),
                                ![r].sends = Append(@, h)]
  /\ UNCHANGED <<now, jobsTable, notifTable, usersTable, tx, observedInserts, harness>>

\* Faulty variant: the catch block leaves the loop
leaveLoop(ci, n) == n + 1

\* sendNotificationsToUser, lines 166-172: the catch block is the end of the
\* loop body, the loop goes on with the next of the n candidates
continueLoop(ci, n) == ci + 1

\* sendJobNotification throws after the call to the channel was made: caught
\* by the inner try (lines 166-172), sentCount is not incremented
SendFault(r) ==
  /\ run[r].pc = "send"
  /\ LET h == run[r].limited[run[r].ci].hash
     IN /\ sendLog' = [sendLog EXCEPT ![run[r].user][h] = Bump(@)]
        /\ run' = [run EXCEPT ![r].pc = "mark",
                                ![r].ci = continueLoop(@, Len(run[r].limited)),
                                ![r].sentCount = sentCountAfterSend(@, TRUE),
                                ![r].sends = Append(@, h),
                                ![r].thrown = Append(@, h)]
  /\ UNCHANGED <<now, jobsTable, notifTable, usersTable, tx, observedInserts, harness>>

\* withTransaction: COMMIT of the user's transaction; sendNotificationsToUser
\* returns sentCount and the handler adds it to the total (lines 125-130)
CommitUser(r) ==
  /\ run[r].pc = "mark"
  /\ run[r].ci > Len(run[r].limited)
  /\ notifTable' = notifTable (+) CommittedRows(tx[r], "notifs")
  /\ tx' = [tx EXCEPT ![r] = NoTx]
  /\ run' = [run EXCEPT ![r].pc = "unsent", ![r].ui = @ + 1,
                          ![r].ret = run[r].sentCount,
                          ![r].total = @ + run[r].sentCount]
  /\ UNCHANGED <<now, jobsTable, usersTable, sendLog, observedInserts, harness>>

\* COMMIT throws: ROLLBACK, sendNotificationsToUser rethrows, the handler's
\* per-user catch (lines 131-136) goes on with the next user
CommitUserFault(r) ==
  /\ run[r].pc = "mark"
  /\ run[r].ci > Len(run[r].limited)
  /\ notifTable' = notifTable (+) RolledBackRows(tx[r], "notifs")
  /\ tx' = [tx EXCEPT ![r] = NoTx]
  /\ run' = [run EXCEPT ![r] = catchUserError(@, run[r].user)]
  /\ UNCHANGED <<now, jobsTable, usersTable, sendLog, observedInserts, harness>>

\* handler, lines 139-172: the success response
Respond(r) ==
  /\ run[r].pc = "unsent"
  /\ run[r].ui > Len(run[r].users)
  /\ run' = [run EXCEPT ![r] =
       [IdleRun EXCEPT !.pc = "done",
          !.users = run[r].users, !.queried = run[r].queried,
          !.caught = run[r].caught,
          !.resp = Success(run[r].fetched, run[r].stored, run[r].dups,
                           run[r].total)]]
  /\ UNCHANGED <<now, jobsTable, notifTable, usersTable, tx, sendLog, observedInserts, harness>>

\* the success response is written, then client.release() throws (finally,
\* line 174): the outer catch calls res.status(500).json on the response
\* that was sent
RespondReleaseFault(r) ==
  /\ run[r].pc = "unsent"
  /\ run[r].ui > Len(run[r].users)
  /\ run' = [run EXCEPT ![r] =
       [IdleRun EXCEPT !.pc = "done",
          !.users = run[r].users, !.queried = run[r].queried,
          !.caught = run[r].caught,
          !.resp = json(Success(run[r].fetched, run[r].stored, run[r].dups,
                                run[r].total), Failure)]]
  /\ UNCHANGED <<now, jobsTable, notifTable, usersTable, tx, sendLog, observedInserts, harness>>

\* the process is killed: the server rolls back the open transaction
Crash(r) ==
  /\ run[r].pc \notin {"idle", "done"}
  /\ jobsTable' = jobsTable (+) RolledBackRows(tx[r], "jobs")
  /\ notifTable' = notifTable (+) RolledBackRows(tx[r], "notifs")
  /\ tx' = [tx EXCEPT ![r] = NoTx]
  /\ run' = [run EXCEPT ![r] = IdleRun]
  /\ UNCHANGED <<now, usersTable, sendLog, observedInserts, harness>>

\* ------------------------------------------------------------- the webhook
\* update.message of a Telegram update: the sender (0 when `from` is
\* missing), the sender's username, the chat and the text
NoMessage == [present |-> FALSE, from |-> 0, username |-> "", chat |-> 0, text |-> ""]

Message(from, username, chat, text) ==
  [present |-> TRUE, from |-> from, username |-> username, chat |-> chat, text |-> text]

\* a request to the webhook and what it meets: the method, TELEGRAM_WEBHOOK_SECRET
\* (loadConfig throws when it is not set), the x-telegram-bot-api-secret-token
\* header, the update, and the call that fails, if any
Hook(method, webhookSecret, secret, message, fault) ==
  [method |-> method, webhookSecret |-> webhookSecret, secret |-> secret,
   message |-> message, fault |-> fault]

NoReply == [to |-> 0, text |-> "none"]

\* bot.sendMessage(chatId, welcomeMessage | helpMessage)
Reply(chatId, text) == [to |-> chatId, text |-> text]

\* webhook handler, lines 28-35: a configured secret must equal the header
secretMatches(webhookSecret, secret) ==
  ~(webhookSecret # <<>> /\ (~secret.present \/ secret.value # webhookSecret))

\* the outcome of one webhook call: status, users table, message sent
Handled(status, table, reply) == [status |-> status, table |-> table, reply |-> reply]

\* Faulty variant: the welcome message is sent inside the transaction, a
\* failure of the channel rolls the registration back
handleStartCommandAtomic(table, message, fault) ==
  IF fault \in {"storage", "channel"} THEN Handled(500, table, NoReply)
  ELSE Handled(200, upsertUser(table, message.from, message.username),
               Reply(message.chat, "welcome"))

\* TelegramBotService.handleStartCommand, lines 30-66: the upsert in its own
\* transaction, then the welcome message; an error is rethrown (500)
handleStartCommand(table, message, fault) ==
  IF fault = "storage" THEN Handled(500, table, NoReply)
  ELSE IF fault = "channel"
  THEN Handled(500, upsertUser(table, message.from, message.username), NoReply)
  ELSE Handled(200, upsertUser(table, message.from, message.username),
               Reply(message.chat, "welcome"))

\* TelegramBotService.handleHelpCommand, lines 72-98: the help message
handleHelpCommand(table, message, fault) ==
  IF fault = "channel" THEN Handled(500, table, NoReply)
  ELSE Handled(200, table, Reply(message.chat, "help"))

\* webhook handler, lines 15-63
handleWebhook(table, hook) ==
  IF hook.method # "POST" THEN Handled(405, table, NoReply)
  ELSE IF hook.webhookSecret = <<>> THEN Handled(500, table, NoReply)
  ELSE IF ~secretMatches(hook.webhookSecret, hook.secret)
  THEN Handled(401, table, NoReply)
  ELSE IF ~hook.message.present THEN Handled(200, table, NoReply)
  ELSE IF hook.message.from = 0 THEN Handled(400, table, NoReply)
  ELSE IF hook.message.text = "/start"
  THEN handleStartCommand(table, hook.message, hook.fault)
  ELSE handleHelpCommand(table, hook.message, hook.fault)

\* the last call of the webhook: request, status, message sent, and the
\* usernames stored for the sender before the call
NoHook ==
  [seen |-> FALSE, req |-> Hook("POST", <<>>, NoHeader, NoMessage, "none"),
   status |-> 0, reply |-> NoReply, known |-> {}]

\* one call of the webhook handler
Webhook(hooks) ==
  /\ \E hook \in hooks :
       LET out == handleWebhook(usersTable, hook)
       IN /\ usersTable' = out.table
          /\ harness' = [harness EXCEPT !.hook =
               [seen |-> TRUE, req |-> hook, status |-> out.status, reply |-> out.reply,
                known |-> {x.username : x \in {y \in BagToSet(usersTable) :
                                                 y.telegram_id = hook.message.from}}]]
  /\ UNCHANGED <<now, jobsTable, notifTable, tx, run, sendLog, observedInserts>>

\* webhook: /start registers the sender (handleStartCommand, upsertUser)
Register(u) ==
  /\ usersTable' = upsertUser(usersTable, u, "name")
  /\ usersTable' # usersTable
  /\ UNCHANGED <<now, jobsTable, notifTable, tx, run, sendLog, observedInserts, harness>>

\* time passes
Tick ==
  /\ now + TickHours <= MaxClock
  /\ now' = now + TickHours
  /\ UNCHANGED <<jobsTable, notifTable, usersTable, tx, run, sendLog, observedInserts, harness>>

\* a statement fails or the channel throws
Fault(r) ==
  \/ GetUnsentFault(r)
  \/ MarkFault(r)
  \/ SendFault(r)
  \/ CommitUserFault(r)

\* ---------------------------------------------------------- specifications
IdleSystem ==
  /\ tx = [r \in Runs |-> NoTx]
  /\ run = [r \in Runs |-> IdleRun]
  /\ sendLog = [u \in Users |-> [h \in Hashes |-> 0]]

\* Ingestion: overlapping invocations store what the sources return; nobody
\* has registered yet.
StoreInit ==
  /\ now = 0
  /\ jobsTable = EmptyBag
  /\ observedInserts = EmptyBag
  /\ notifTable = EmptyBag
  /\ usersTable = EmptyBag
  /\ IdleSystem
  /\ harness = "none"

StoreNext ==
  \E r \in Runs :
    \/ StartRun(r, Batches(now - jobFetchLookbackHours))
    \/ DedupInsert(r)
    \/ DedupCommit(r)
    \/ DedupFault(r)
    \/ GetAllUsers(r)
    \/ Respond(r)
    \/ Crash(r)

StoreSpec == StoreInit /\ [][StoreNext]_vars

\* Delivery: earlier invocations stored J1 and J3; the sources return nothing
\* new while overlapping invocations deliver.  Either both users registered
\* and J1 has left the recency window, or one user registered and both
\* listings are within it.
Registered(us) ==
  SetToBag({[telegram_id |-> u, username |-> "name", created_at |-> 0] : u \in us})

DeliverInit ==
  /\ \/ now = MaxClock /\ usersTable = Registered(Users)
     \/ now = TickHours /\ usersTable = Registered({1})
  /\ jobsTable = SetToBag({Row(J1), Row(J3)})
  /\ observedInserts = SetToBag({generateJobHash(J1), generateJobHash(J3)})
  /\ notifTable = EmptyBag
  /\ IdleSystem
  /\ harness = "none"

DeliverSteps(r) ==
  \/ StartRun(r, {<<>>})
  \/ GetAllUsers(r)
  \/ GetUnsent(r)
  \/ MarkAsSent(r)
  \/ Send(r)
  \/ CommitUser(r)
  \/ Respond(r)

DeliverNext ==
  \/ \E r \in Runs : DeliverSteps(r)
  \/ \E r \in Runs : Fault(r)
  \/ \E r \in Runs : Crash(r)

DeliverSpec == DeliverInit /\ [][DeliverNext]_vars

\* Delivery interrupted only by abrupt termination: no statement fails and
\* the channel does not throw.
DeliverCrashNext ==
  \/ \E r \in Runs : DeliverSteps(r)
  \/ \E r \in Runs : Crash(r)

DeliverCrashSpec == DeliverInit /\ [][DeliverCrashNext]_vars

\* Delivery in which only the channel fails: sendMessage may throw, no
\* statement fails and no process is killed.
DeliverSendFaultNext ==
  \/ \E r \in Runs : DeliverSteps(r)
  \/ \E r \in Runs : SendFault(r)

DeliverSendFaultSpec == DeliverInit /\ [][DeliverSendFaultNext]_vars

\* Overlapping deliveries without any failure: no statement fails, the
\* channel does not throw, no process is killed, every transaction commits.
DeliverOverlapNext == \E r \in Runs : DeliverSteps(r)

DeliverOverlapSpec == DeliverInit /\ [][DeliverOverlapNext]_vars

\* Repeated fault-free runs, one after the other, while time passes and
\* users register. The platform triggers the handler again and again and
\* every step of a run is taken: weak fairness on the run's steps.
PipelineInit ==
  /\ now = 0
  /\ jobsTable = EmptyBag
  /\ observedInserts = EmptyBag
  /\ notifTable = EmptyBag
  /\ usersTable = Registered({1})
  /\ IdleSystem
  /\ harness = "none"

PipelineRun ==
  \/ StartRun("A", Batches(now - jobFetchLookbackHours))
  \/ DedupInsert("A")
  \/ DedupCommit("A")
  \/ GetAllUsers("A")
  \/ GetUnsent("A")
  \/ MarkAsSent("A")
  \/ Send("A")
  \/ CommitUser("A")
  \/ Respond("A")

\* a run is short against the hours the clock counts: time passes between runs
PipelineTick ==
  /\ run["A"].pc \in {"idle", "done"}
  /\ Tick

PipelineNext ==
  \/ PipelineRun
  \/ \E u \in Users : Register(u)
  \/ PipelineTick

PipelineSpec == PipelineInit /\ [][PipelineNext]_vars /\ WF_vars(PipelineRun)

\* The trigger is invoked with any request, in any environment, and every
\* call the handler makes may fail. Earlier runs stored J3 and delivered it
\* to user 1. Every step of a running invocation is eventually taken.
Secrets == {<<>>, <<"s">>}

Headers == {NoHeader, Header(Bearer(<<"s">>)), Header(Bearer(<<"x">>))}

ToggleSets == {Toggles(FALSE, FALSE, FALSE), Toggles(TRUE, FALSE, FALSE),
               Toggles(TRUE, TRUE, TRUE)}

Requests ==
  {Request(c, h, e, t) : c \in Secrets, h \in Headers, e \in BOOLEAN, t \in ToggleSets}

NoRequest == Request(<<>>, NoHeader, TRUE, Toggles(TRUE, TRUE, TRUE))

HandlerInit ==
  /\ now = TickHours
  /\ jobsTable = SetToBag({Row(J3)})
  /\ observedInserts = SetToBag({generateJobHash(J3)})
  /\ notifTable = SetToBag({NotifRow(1, generateJobHash(J3))})
  /\ usersTable = Registered(Users)
  /\ IdleSystem
  /\ harness = [kind |-> "handler", seen |-> FALSE, req |-> NoRequest,
                fetched |-> FALSE, before |-> Stored]

HandlerSteps ==
  \/ DedupInsert("A")
  \/ DedupCommit("A")
  \/ GetAllUsers("A")
  \/ GetUnsent("A")
  \/ MarkAsSent("A")
  \/ Send("A")
  \/ CommitUser("A")
  \/ Respond("A")
  \/ DedupFault("A")
  \/ GetAllUsersFault("A")
  \/ Fault("A")
  \/ RespondReleaseFault("A")

HandlerNext ==
  \/ Invoke("A", Requests, Batches(now - jobFetchLookbackHours))
  \/ HandlerSteps

HandlerSpec == HandlerInit /\ [][HandlerNext]_vars /\ WF_vars(HandlerSteps)

\* Authorization: the trigger and the webhook receive requests with and
\* without the right credentials while listing J3 waits to be delivered to
\* user 1; user 2 has not registered. No call fails.
AuthRequests ==
  {Request(c, h, TRUE, Toggles(TRUE, TRUE, TRUE)) : c \in Secrets, h \in Headers}

AuthHooks ==
  {Hook("POST", <<"w">>, h, Message(2, "name", 2, text), "none") :
     h \in {NoHeader, Header(<<"w">>), Header(<<"x">>)}, text \in {"/start", "/help"}}

AuthInit ==
  /\ now = TickHours
  /\ jobsTable = SetToBag({Row(J3)})
  /\ observedInserts = SetToBag({generateJobHash(J3)})
  /\ notifTable = EmptyBag
  /\ usersTable = Registered({1})
  /\ IdleSystem
  /\ harness = [kind |-> "auth", seen |-> FALSE, req |-> NoRequest,
                fetched |-> FALSE, before |-> Stored,
                hook |-> NoHook]

AuthNext ==
  \/ Invoke("A", AuthRequests, Batches(now - jobFetchLookbackHours))
  \/ DedupInsert("A")
  \/ DedupCommit("A")
  \/ GetAllUsers("A")
  \/ GetUnsent("A")
  \/ MarkAsSent("A")
  \/ Send("A")
  \/ CommitUser("A")
  \/ Respond("A")
  \/ Webhook(AuthHooks)

AuthSpec == AuthInit /\ [][AuthNext]_vars

\* The webhook receives every kind of request, from two senders who change
\* their usernames and write from their own or the other chat, while the
\* store or the channel may fail.
Usernames == {"ann", "bob"}

Messages ==
  {NoMessage} \cup
  {Message(from, name, chat, text) :
     from \in {0} \cup Users, name \in Usernames, chat \in Users,
     text \in {"/start", "/help", "hi", ""}}

\* every update with the right token, and a /start of user 1 sent with the
\* wrong method, without configuration, and with a missing or wrong token
Hooks ==
  {Hook("POST", <<"w">>, Header(<<"w">>), m, fault) :
     m \in Messages, fault \in {"none", "storage", "channel"}}
  \cup
  {Hook(method, w, h, Message(1, "ann", 1, "/start"), "none") :
     method \in {"POST", "GET"}, w \in {<<>>, <<"w">>},
     h \in {NoHeader, Header(<<"x">>)}}

WebhookInit ==
  /\ now = 0
  /\ jobsTable = EmptyBag
  /\ observedInserts = EmptyBag
  /\ notifTable = EmptyBag
  /\ usersTable = EmptyBag
  /\ IdleSystem
  /\ harness = [kind |-> "webhook", hook |-> NoHook]

WebhookNext == Webhook(Hooks)

WebhookSpec == WebhookInit /\ [][WebhookNext]_vars

\* ------------------------------------------------------------------ filter
\* String.prototype.includes
includes(text, part) ==
  \E i \in 0..(Len(text) - Len(part)) : SubSeq(text, i + 1, i + Len(part)) = part

\* the filtering part of Config
Policy(kw, ex, loc, sen) ==
  [jobQueryKeywords |-> kw, jobExcludedKeywords |-> ex,
   jobLocations |-> loc, jobSeniority |-> sen]

\* Faulty variant: the fields are joined without the separating spaces
keywordTextUnspaced(job) == toLowerCase(job.title \o job.company \o job.location)

\* `${job.title} ${job.company} ${job.location}`.toLowerCase()
keywordText(job) ==
  toLowerCase(job.title \o <<" ">> \o job.company \o <<" ">> \o job.location)

\* jobQueryKeywords.some(keyword => jobText.includes(keyword.toLowerCase()))
hasKeyword(config, job) ==
  \E i \in DOMAIN config.jobQueryKeywords :
    includes(keywordText(job), toLowerCase(config.jobQueryKeywords[i]))

\* jobExcludedKeywords.some(...) on `${job.title} ${job.company}`.toLowerCase()
hasExcluded(config, job) ==
  \E i \in DOMAIN config.jobExcludedKeywords :
    includes(toLowerCase(job.title \o <<" ">> \o job.company),
             toLowerCase(config.jobExcludedKeywords[i]))

\* jobLocations.some(location => jobLocation.includes(location.toLowerCase()))
matchesLocation(config, job) ==
  \E i \in DOMAIN config.jobLocations :
    includes(toLowerCase(job.location), toLowerCase(config.jobLocations[i]))

\* Faulty variant: the comparison forgets toLowerCase
matchesSeniorityExactly(config, job) ==
  \E i \in DOMAIN config.jobSeniority : job.seniority = config.jobSeniority[i]

\* jobSeniority.some(s => job.seniority?.toLowerCase() === s.toLowerCase())
matchesSeniority(config, job) ==
  \E i \in DOMAIN config.jobSeniority :
    toLowerCase(job.seniority) = toLowerCase(config.jobSeniority[i])

\* Faulty variant: `length === 1` for `length > 0`
includeConfiguredSingle(config) == Len(config.jobQueryKeywords) = 1

\* if (this.config.jobQueryKeywords.length > 0)
includeConfigured(config) == Len(config.jobQueryKeywords) > 0

\* the four early returns of matches
rejectedByKeywords(config, job) ==
  includeConfigured(config) /\ ~hasKeyword(config, job)

\* Faulty variant: the excluded keywords are never consulted
rejectedByExcludedNever(config, job) == FALSE

rejectedByExcluded(config, job) ==
  Len(config.jobExcludedKeywords) > 0 /\ hasExcluded(config, job)

rejectedByLocation(config, job) ==
  Len(config.jobLocations) > 0 /\ ~matchesLocation(config, job)

rejectedBySeniority(config, job) ==
  /\ Len(config.jobSeniority) > 0 /\ job.seniority # NoSeniority
  /\ ~matchesSeniority(config, job)

\* JobFilter.matches
matches(config, job) ==
  IF rejectedByKeywords(config, job) THEN FALSE
  ELSE IF rejectedByExcluded(config, job) THEN FALSE
  ELSE IF rejectedByLocation(config, job) THEN FALSE
  ELSE IF rejectedBySeniority(config, job) THEN FALSE
  ELSE TRUE

\* JobFilter.filter
filter(config, jobs) == SelectSeq(jobs, LAMBDA job : matches(config, job))

\* ------------------------------------------------------------ fetchAllJobs
DigitValue(c) ==
  CASE c = "0" -> 0 [] c = "1" -> 1 [] c = "2" -> 2 [] c = "3" -> 3
    [] c = "4" -> 4 [] c = "5" -> 5 [] c = "6" -> 6 [] c = "7" -> 7
    [] c = "8" -> 8 [] c = "9" -> 9

IsDigit(c) == c \in {"0", "1", "2", "3", "4", "5", "6", "7", "8", "9"}

RECURSIVE DigitsValue(_, _)
DigitsValue(s, acc) ==
  IF s = <<>> \/ ~IsDigit(Head(s)) THEN acc
  ELSE DigitsValue(Tail(s), 10 * acc + DigitValue(Head(s)))

\* parseInt(value, 10): leading whitespace, an optional sign, the leading
\* digits; NaN when there is no digit
parseInt(value) ==
  LET t == TrimStart(value)
      signed == t # <<>> /\ Head(t) \in {"-", "+"}
      digits == IF signed THEN Tail(t) ELSE t
  IN IF digits = <<>> \/ ~IsDigit(Head(digits))
     THEN [nan |-> TRUE, value |-> 0]
     ELSE [nan |-> FALSE,
           value |-> IF signed /\ Head(t) = "-"
                     THEN 0 - DigitsValue(digits, 0) ELSE DigitsValue(digits, 0)]

\* parseNumber: an unset or empty variable and a NaN give the default
parseNumber(value, defaultValue) ==
  IF value = <<>> THEN defaultValue
  ELSE IF parseInt(value).nan THEN defaultValue ELSE parseInt(value).value

\* Array.prototype.slice(0, end): a negative end counts from the end
slice(xs, end) ==
  LET e == IF end < 0
           THEN (IF Len(xs) + end < 0 THEN 0 ELSE Len(xs) + end)
           ELSE (IF end > Len(xs) THEN Len(xs) ELSE end)
  IN SubSeq(xs, 1, e)

\* what one call of source.fetchJobs does: it throws or it returns jobs
Thrown == [throws |-> TRUE, jobs |-> <<>>]

Returned(jobs) == [throws |-> FALSE, jobs |-> jobs]

\* fetchAllJobs before its loop: no jobs, no stats; `invoked` is the history
\* of the fetchJobs calls and `origin` the source of each job of `jobs`
FetchStart == [jobs |-> <<>>, origin |-> <<>>, stats |-> <<>>, invoked |-> <<>>]

\* Faulty variant: the catch block leaves errors at 0
fetchStepSilent(acc, name, outcome, config, maxJobsPerSource) ==
  LET limitedJobs == slice(outcome.jobs, maxJobsPerSource)
      filteredJobs == filter(config, limitedJobs)
  IN [jobs |-> acc.jobs \o filteredJobs,
      origin |-> acc.origin \o [i \in DOMAIN filteredJobs |-> name],
      stats |-> Append(acc.stats,
                 [name |-> name, fetched |-> Len(outcome.jobs),
                  filtered |-> Len(filteredJobs), errors |-> 0]),
      invoked |-> Append(acc.invoked, name)]

\* Faulty variant: a failed source is fetched a second time
fetchStepRetrying(acc, name, outcome, config, maxJobsPerSource) ==
  LET step == fetchStepSilent(acc, name, outcome, config, maxJobsPerSource)
  IN IF outcome.throws
     THEN [step EXCEPT !.invoked = Append(@, name),
                       !.stats[Len(step.stats)].errors = 1]
     ELSE step

\* one iteration of the loop of fetchAllJobs (lines 31-63)
fetchStep(acc, name, outcome, config, maxJobsPerSource) ==
  IF outcome.throws
  THEN [acc EXCEPT
          !.stats = Append(@, [name |-> name, fetched |-> 0, filtered |-> 0,
                               errors |-> 1]),
          !.invoked = Append(@, name)]
  ELSE LET rawJobs == outcome.jobs
           limitedJobs == slice(rawJobs, maxJobsPerSource)
           filteredJobs == filter(config, limitedJobs)
       IN [jobs |-> acc.jobs \o filteredJobs,
           origin |-> acc.origin \o [i \in DOMAIN filteredJobs |-> name],
           stats |-> Append(acc.stats,
                      [name |-> name, fetched |-> Len(rawJobs),
                       filtered |-> Len(filteredJobs), errors |-> 0]),
           invoked |-> Append(acc.invoked, name)]

\* fetchAllJobs: the loop over the sources
RECURSIVE fetchLoop(_, _, _, _, _)
fetchLoop(acc, names, outcomes, config, maxJobsPerSource) ==
  IF names = <<>> THEN acc
  ELSE fetchLoop(fetchStep(acc, Head(names), Head(outcomes), config, maxJobsPerSource),
                 Tail(names), Tail(outcomes), config, maxJobsPerSource)

fetchAllJobs(names, outcomes, config, maxJobsPerSource) ==
  fetchLoop(FetchStart, names, outcomes, config, maxJobsPerSource)

\* createJobSources with every toggle at its default
SourceNames == <<"remoteok", "weworkremotely", "wuzzuf">>

\* ---------------------------------------------------------------- sources
\* placeholders the adapters substitute for missing fields
Untitled == <<"U", "n", "t", "i", "t", "l", "e", "d">>

UnknownCompany ==
  <<"U", "n", "k", "n", "o", "w", "n", " ", "C", "o", "m", "p", "a", "n", "y">>

Remote == <<"R", "e", "m", "o", "t", "e">>

\* a || b for strings: the empty string is falsy, whitespace is not
OrElse(a, b) == IF a # <<>> THEN a ELSE b

\* Faulty variant: 'junior' is looked for before 'senior'
extractSeniorityJuniorFirst(title) ==
  LET lowerTitle == toLowerCase(title)
  IN IF includes(lowerTitle, junior) THEN junior
     ELSE IF includes(lowerTitle, senior) THEN senior
     ELSE IF includes(lowerTitle, mid) \/ includes(lowerTitle, middle) THEN mid
     ELSE NoSeniority

\* extractSeniority (both adapters)
extractSeniority(title) ==
  LET lowerTitle == toLowerCase(title)
  IN IF includes(lowerTitle, senior) THEN senior
     ELSE IF includes(lowerTitle, junior) THEN junior
     ELSE IF includes(lowerTitle, mid) \/ includes(lowerTitle, middle) THEN mid
     ELSE NoSeniority

\* an item of the RemoteOK API; "" and <<>> stand for an absent field, a
\* negative date for a missing or unparsable one
RemoteOKItem(id, position, title, company, location, url, date) ==
  [id |-> id, position |-> position, title |-> title, company |-> company,
   location |-> location, url |-> url, date |-> date]

\* RemoteOKSource.fetchJobs, lines 66-76
normalizeRemoteOK(item) ==
  Job(OrElse(item.position, OrElse(item.title, Untitled)),
      OrElse(item.company, UnknownCompany),
      OrElse(item.location, Remote),
      "remoteok",
      IF item.url # "" THEN item.url ELSE "https://remoteok.io/remote-jobs/id",
      item.date,
      extractSeniority(item.position))

\* RemoteOKSource.fetchJobs, lines 31-64: the items that are normalized
acceptsRemoteOK(item, since) ==
  /\ item.id # 0 /\ (item.position # <<>> \/ item.company # <<>>)
  /\ item.date >= 0
  /\ item.date >= since

RECURSIVE remoteOKJobs(_, _)
remoteOKJobs(items, since) ==
  IF items = <<>> THEN <<>>
  ELSE (IF acceptsRemoteOK(Head(items), since)
        THEN <<normalizeRemoteOK(Head(items))>> ELSE <<>>)
       \o remoteOKJobs(Tail(items), since)

\* an item of the WeWorkRemotely feed
FeedItem(title, link, pubDate) == [title |-> title, link |-> link, pubDate |-> pubDate]

\* where /^(.+?)SEP(.+)$/ splits: the first separator that has at least one
\* character on either side, 0 when there is none
SplitAt(text, sep) ==
  LET at == {p \in 2..(Len(text) - 1) : text[p] = sep}
  IN IF at = {} THEN 0 ELSE CHOOSE p \in at : \A q \in at : p <= q

\* WeWorkRemotelySource.fetchJobs, lines 145-160: "Company: Job Title", then
\* "Job Title - Company Name", then the whole title
parseFeedTitle(text) ==
  LET colon == SplitAt(text, ":")
      dash == SplitAt(text, "-")
  IN IF colon # 0
     THEN [company |-> trim(SubSeq(text, 1, colon - 1)),
           title |-> trim(SubSeq(text, colon + 1, Len(text)))]
     ELSE IF dash # 0
     THEN [title |-> trim(SubSeq(text, 1, dash - 1)),
           company |-> trim(SubSeq(text, dash + 1, Len(text)))]
     ELSE [title |-> trim(text), company |-> UnknownCompany]

\* WeWorkRemotelySource.fetchJobs, lines 162-171
normalizeFeedItem(item) ==
  LET parsed == parseFeedTitle(item.title)
  IN Job(parsed.title, parsed.company, Remote, "weworkremotely", item.link,
         item.pubDate, extractSeniority(parsed.title))

\* WeWorkRemotelySource.fetchJobs, lines 116-138: the items that are normalized
acceptsFeedItem(item, since) ==
  /\ item.title # <<>> /\ item.link # ""
  /\ item.pubDate >= 0
  /\ item.pubDate >= since

RECURSIVE feedJobs(_, _)
feedJobs(items, since) ==
  IF items = <<>> THEN <<>>
  ELSE (IF acceptsFeedItem(Head(items), since)
        THEN <<normalizeFeedItem(Head(items))>> ELSE <<>>)
       \o feedJobs(Tail(items), since)

\* ------------------------------------------------------------ unit drivers
Pad(n) == [i \in 1..n |-> " "]

toUpperCase(s) == [i \in 1..Len(s) |-> UpperChar(s[i])]

\* the spellings of a field that differ in letter case and in leading or
\* trailing whitespace only
Spellings(s) ==
  {Pad(l) \o c \o Pad(t) : c \in {s, toLowerCase(s), toUpperCase(s)},
                           l \in 0..MaxPad, t \in 0..MaxPad}

\* NormalizedJob with its optional fields techStack and employmentType
Listing(job, techStack, employmentType) ==
  job @@ [techStack |-> techStack, employmentType |-> employmentType]

\* what a second source may report for the fields that are not hashed
OtherFields(job) ==
  {[platform |-> job.platform, url |-> job.url, postedAt |-> job.postedAt,
    seniority |-> job.seniority, techStack |-> <<>>, employmentType |-> "full-time"],
   [platform |-> "weworkremotely", url |-> "u8", postedAt |-> job.postedAt,
    seniority |-> senior, techStack |-> <<"ts">>, employmentType |-> "full-time"],
   [platform |-> "remoteok", url |-> "u9", postedAt |-> TickHours - job.postedAt,
    seniority |-> junior, techStack |-> <<"go", "ts">>, employmentType |-> "contract"]}

\* the listings that differ from job only in letter case, in surrounding
\* whitespace of title, company and location, or in the other fields
Variants(job) ==
  {Listing(Job(t, c, l, o.platform, o.url, o.postedAt, o.seniority),
           o.techStack, o.employmentType) :
     t \in Spellings(job.title), c \in Spellings(job.company),
     l \in Spellings(job.location), o \in OtherFields(job)}

\* generateJobHash applied to a listing and to one of its variants
HashInit ==
  /\ IdleSystem
  /\ now = 0 /\ jobsTable = EmptyBag /\ notifTable = EmptyBag
  /\ usersTable = EmptyBag /\ observedInserts = EmptyBag
  /\ \E a \in Pool : \E b \in Variants(a) :
       harness = [kind |-> "hash", a |-> Listing(a, <<>>, "full-time"), b |-> b,
                  hashes |-> <<>>]

ComputeHashes ==
  /\ harness.kind = "hash"
  /\ harness.hashes = <<>>
  /\ harness' = [harness EXCEPT
       !.hashes = <<generateJobHash(harness.a), generateJobHash(harness.b)>>]
  /\ UNCHANGED <<now, jobsTable, notifTable, usersTable, tx, run, sendLog, observedInserts>>

HashNext == ComputeHashes

HashSpec == HashInit /\ [][HashNext]_vars

\* another spelling of a listing, as another source reports it
Restyled(job) ==
  Job(Pad(MaxPad) \o toUpperCase(job.title) \o Pad(MaxPad),
      Pad(MaxPad) \o toUpperCase(job.company),
      toUpperCase(job.location) \o Pad(MaxPad),
      IF job.platform = "remoteok" THEN "weworkremotely" ELSE "remoteok",
      "u9", job.postedAt, senior)

Listings == Pool \cup {Restyled(j) : j \in Pool}

\* equivalent listings: same lowercase-trimmed title, company and location
Equivalent(a, b) ==
  /\ trim(toLowerCase(a.title)) = trim(toLowerCase(b.title))
  /\ trim(toLowerCase(a.company)) = trim(toLowerCase(b.company))
  /\ trim(toLowerCase(a.location)) = trim(toLowerCase(b.location))

\* the jobs tables the primary key allows over the pool
Stores ==
  {SetToBag({Row(j) : j \in S}) : S \in
     {S \in SUBSET Pool : \A j, k \in S : Equivalent(j, k) => j = k}}

\* insertJobIfNotExists called twice in sequence on the pool (autocommit)
InsertTwiceInit ==
  /\ IdleSystem
  /\ now = 0 /\ notifTable = EmptyBag /\ usersTable = EmptyBag
  /\ jobsTable \in Stores
  /\ observedInserts = EmptyBag
  /\ \E a \in Listings : \E b \in {l \in Listings : Equivalent(a, l)} :
       harness = [kind |-> "insert", first |-> a, second |-> b,
                  store0 |-> jobsTable, results |-> <<>>]

InsertCall ==
  /\ harness.kind = "insert"
  /\ Len(harness.results) < 2
  /\ LET job == IF Len(harness.results) = 0 THEN harness.first ELSE harness.second
         res == insertJobIfNotExists("A", job)
     IN /\ jobsTable' = jobsTable (+) res.rows
        /\ harness' = [harness EXCEPT
             !.results = Append(@, [inserted |-> res.inserted, hash |-> res.hash])]
  /\ UNCHANGED <<now, notifTable, usersTable, tx, run, sendLog, observedInserts>>

InsertTwiceNext == InsertCall

InsertTwiceSpec == InsertTwiceInit /\ [][InsertTwiceNext]_vars

\* candidate lists handed to sendNotificationsToUser: stored listings in any
\* order, repeated or already delivered, up to one more than the cap
Candidates ==
  UNION {[1..n -> {Row(J1), Row(J3)}] : n \in 0..(maxNotificationsPerUser + 1)}

\* sendNotificationsToUser called twice in sequence with the same candidates
DispatchTwiceInit ==
  /\ IdleSystem
  /\ now = TickHours
  /\ jobsTable = SetToBag({Row(J1), Row(J3)})
  /\ observedInserts = EmptyBag
  /\ usersTable = Registered(Users)
  /\ \E u \in Users : \E cand \in Candidates :
       /\ notifTable \in {SetToBag({NotifRow(u, h) : h \in H}) :
                            H \in SUBSET {generateJobHash(J1), generateJobHash(J3)}}
       /\ harness = [kind |-> "dispatch", user |-> u, cand |-> cand, call |-> 0,
                     ret1 |-> -1, table1 |-> EmptyBag, sent1 |-> sendLog]

DispatchCall ==
  /\ harness.kind = "dispatch"
  /\ harness.call < 2
  /\ run["A"].pc = IF harness.call = 0 THEN "idle" ELSE "unsent"
  /\ run' = [run EXCEPT !["A"] =
       EnterDispatch([IdleRun EXCEPT !.pc = "unsent"], harness.user, harness.cand)]
  /\ tx' = IF Len(harness.cand) = 0 THEN tx ELSE [tx EXCEPT !["A"] = Begin]
  /\ harness' = [harness EXCEPT !.call = @ + 1, !.ret1 = run["A"].ret,
                                !.table1 = notifTable, !.sent1 = sendLog]
  /\ UNCHANGED <<now, jobsTable, notifTable, usersTable, sendLog, observedInserts>>

DispatchTwiceNext ==
  \/ DispatchCall
  \/ MarkAsSent("A")
  \/ Send("A")
  \/ CommitUser("A")

DispatchTwiceSpec == DispatchTwiceInit /\ [][DispatchTwiceNext]_vars

\* keywords, exclusions, locations and seniorities an operator may configure
Keywords ==
  {<<"d", "v">>, <<"O", "p">>, <<"v", "a">>, <<"v", " ", "a">>, <<"x">>}

KeywordLists == UNION {[1..n -> Keywords] : n \in 0..MaxKeywords}

ExcludedLists == {<<>>, <<<<"o", "p">>>>, <<<<"x">>, <<"D", "V">>>>}

LocationLists == {<<>>, <<<<"R">>>>, <<<<"x">>>>}

SeniorityLists ==
  {<<>>, <<<<"S", "e", "n", "i", "o", "r">>>>, <<junior, mid>>}

Policies ==
  {Policy(kw, ex, loc, sen) : kw \in KeywordLists, ex \in ExcludedLists,
                              loc \in LocationLists, sen \in SeniorityLists}

FilterJobs ==
  Pool \cup {[J1 EXCEPT !.seniority = senior], [J2 EXCEPT !.seniority = mid],
             [J3 EXCEPT !.seniority = toUpperCase(junior)]}

\* JobFilter.matches on a listing, then again with one more include keyword
FilterInit ==
  /\ IdleSystem
  /\ now = 0 /\ jobsTable = EmptyBag /\ notifTable = EmptyBag
  /\ usersTable = EmptyBag /\ observedInserts = EmptyBag
  /\ \E config \in Policies : \E job \in FilterJobs :
       harness = [kind |-> "filter", config |-> config, job |-> job, step |-> 0,
                  result |-> FALSE,
                  rejected |-> [keywords |-> FALSE, excluded |-> FALSE,
                                location |-> FALSE, seniority |-> FALSE],
                  keyword |-> <<>>, again |-> FALSE]

Matches ==
  /\ harness.kind = "filter"
  /\ harness.step = 0
  /\ harness' = [harness EXCEPT
       !.step = 1,
       !.result = matches(harness.config, harness.job),
       !.rejected = [keywords |-> rejectedByKeywords(harness.config, harness.job),
                     excluded |-> rejectedByExcluded(harness.config, harness.job),
                     location |-> rejectedByLocation(harness.config, harness.job),
                     seniority |-> rejectedBySeniority(harness.config, harness.job)]]
  /\ UNCHANGED <<now, jobsTable, notifTable, usersTable, tx, run, sendLog, observedInserts>>

MatchesWithKeyword ==
  /\ harness.kind = "filter"
  /\ harness.step = 1
  /\ \E keyword \in Keywords :
       harness' = [harness EXCEPT
         !.step = 2, !.keyword = keyword,
         !.again = matches([harness.config EXCEPT !.jobQueryKeywords = Append(@, keyword)],
                           harness.job)]
  /\ UNCHANGED <<now, jobsTable, notifTable, usersTable, tx, run, sendLog, observedInserts>>

FilterNext == Matches \/ MatchesWithKeyword

FilterSpec == FilterInit /\ [][FilterNext]_vars

\* what a source may return in the driver: J1 and J3 in any order, repeated
RawLists == UNION {[1..n -> {J1, J3}] : n \in 0..MaxRaw}

Outcomes == {Thrown} \cup {Returned(jobs) : jobs \in RawLists}

\* values of MAX_JOBS_PER_SOURCE; the empty string stands for unset
CapValues == {<<>>, <<"0">>, <<"1">>, <<"-", "1">>, <<"1", "x">>, <<"x">>}

\* policies of the driver: none, and one that keeps J3 only
FetchPolicies ==
  {Policy(<<>>, <<>>, <<>>, <<>>), Policy(<<<<"o", "p">>>>, <<>>, <<>>, <<>>)}

\* fetchAllJobs over three sources, one iteration at a time
FetchInit ==
  /\ IdleSystem
  /\ now = 0 /\ jobsTable = EmptyBag /\ notifTable = EmptyBag
  /\ usersTable = EmptyBag /\ observedInserts = EmptyBag
  /\ \E outcomes \in [DOMAIN SourceNames -> Outcomes] :
     \E config \in FetchPolicies : \E value \in CapValues :
       harness = [kind |-> "fetch", outcomes |-> outcomes, config |-> config,
                  maxJobsPerSource |-> parseNumber(value, maxJobsPerSourceDefault),
                  i |-> 1, acc |-> FetchStart]

FetchSource ==
  /\ harness.kind = "fetch"
  /\ harness.i <= Len(SourceNames)
  /\ harness' = [harness EXCEPT
       !.i = @ + 1,
       !.acc = fetchStep(@, SourceNames[harness.i], harness.outcomes[harness.i],
                         harness.config, harness.maxJobsPerSource)]
  /\ UNCHANGED <<now, jobsTable, notifTable, usersTable, tx, run, sendLog, observedInserts>>

FetchNext == FetchSource

FetchSpec == FetchInit /\ [][FetchNext]_vars

\* what the RemoteOK API and the WeWorkRemotely feed may hold
RemoteOKItems ==
  {RemoteOKItem(1, <<"D", "v">>, <<>>, <<"A">>, <<>>, "u1", 0),
   RemoteOKItem(2, <<" ">>, <<>>, <<"A">>, <<"R">>, "", 0),
   RemoteOKItem(3, <<>>, <<"O", "p">>, <<>>, <<>>, "u3", 0)}

FeedItems ==
  {FeedItem(<<"A", ":", " ", "D", "v">>, "u4", 0),
   FeedItem(<<"O", "p", " ", "-", " ", "A">>, "u5", 0),
   FeedItem(<<" ", ":", "O", "p">>, "u6", 0)}

RemoteOKFeeds == UNION {[1..n -> RemoteOKItems] : n \in 0..MaxRaw}

WeWorkRemotelyFeeds == UNION {[1..n -> FeedItems] : n \in 0..MaxRaw}

\* the batches fetchAllJobs may hand to deduplicateAndStore when RemoteOK and
\* WeWorkRemotely are enabled, unfiltered, with the default cap
IngestBatches(since) ==
  {fetchAllJobs(<<"remoteok", "weworkremotely">>,
                <<outcome, feed>>,
                Policy(<<>>, <<>>, <<>>, <<>>), maxJobsPerSourceDefault).jobs :
     outcome \in {Thrown} \cup {Returned(remoteOKJobs(items, since)) : items \in RemoteOKFeeds},
     feed \in {Thrown} \cup {Returned(feedJobs(items, since)) : items \in WeWorkRemotelyFeeds}}

\* Runs that ingest what the adapters normalize, one after the other.
IngestInit == StoreInit

IngestNext ==
  \/ StartRun("A", IngestBatches(now - jobFetchLookbackHours))
  \/ DedupInsert("A")
  \/ DedupCommit("A")
  \/ GetAllUsers("A")
  \/ Respond("A")

IngestSpec == IngestInit /\ [][IngestNext]_vars

\* two more listings for the query driver: one as new as J3, one newer
J4 == Job(<<"x">>, <<"A">>, <<"R">>, "weworkremotely", "u4", TickHours, NoSeniority)

J5 == Job(<<"v">>, <<"d">>, <<"R">>, "remoteok", "u5", 2 * TickHours, senior)

QueryStores == {SetToBag({Row(j) : j \in S}) : S \in SUBSET {J1, J3, J4, J5}}

Times == {t \in 0..MaxClock : t % TickHours = 0}

\* getUnsentJobsForUser on every store, ledger, time, user and limit
QueryInit ==
  /\ IdleSystem
  /\ usersTable = Registered(Users) /\ observedInserts = EmptyBag
  /\ now \in Times
  /\ jobsTable \in QueryStores
  /\ \E u \in Users : \E limit \in 0..maxNotificationsPerUser :
       /\ notifTable \in {SetToBag({NotifRow(u, row.hash) : row \in S}) :
                            S \in SUBSET BagToSet(jobsTable)}
       /\ harness = [kind |-> "query", userId |-> u, limit |-> limit,
                     done |-> FALSE, result |-> <<>>]

Query ==
  /\ harness.kind = "query"
  /\ ~harness.done
  /\ \E rows \in getUnsentJobsForUser(harness.userId, harness.limit) :
       harness' = [harness EXCEPT !.done = TRUE, !.result = rows]
  /\ UNCHANGED <<now, jobsTable, notifTable, usersTable, tx, run, sendLog, observedInserts>>

QueryNext == Query

QuerySpec == QueryInit /\ [][QueryNext]_vars

\* ------------------------------------------------------ claims on ingestion
Count(x, s) == Cardinality({i \in DOMAIN s : s[i] = x})

Processed(r) == 1..(run[r].idx - 1)

InBatch(r) == run[r].pc \in {"dedup", "users"} /\ run[r].jobs # <<>>

\* C7: when overlapping runs insert equivalent listings, each inside its own
\* batch transaction, and both commit, exactly one ListingRecord with that
\* hash is stored and exactly one committed caller has observed
\* inserted=true; every other committed caller has observed inserted=false.
C7_OneInserterPerHash ==
  /\ \A h \in Hashes :
       /\ JobRowsWith(jobsTable, h) <= 1
       /\ CopiesIn(h, observedInserts) = JobRowsWith(jobsTable, h)
  /\ \A r \in Runs : run[r].pc = "users" =>
       \A i \in DOMAIN run[r].calls :
         JobRowsWith(jobsTable, run[r].calls[i].hash) = 1
  /\ \A r, q \in Runs : (r # q /\ run[r].pc = "users" /\ run[q].pc = "users") =>
       \A i \in DOMAIN run[r].calls, k \in DOMAIN run[q].calls :
         run[r].calls[i].hash = run[q].calls[k].hash =>
           ~(run[r].calls[i].inserted /\ run[q].calls[k].inserted)

\* Both batches have committed, the second began while the first held
\* uncommitted rows, both contained the hash of J1, and one observed
\* inserted=true, the other inserted=false.
C7_Witness ==
  /\ run["A"].pc = "users" /\ run["B"].pc = "users"
  /\ run["B"].overlap
  /\ \E i \in DOMAIN run["A"].calls, k \in DOMAIN run["B"].calls :
       /\ run["A"].calls[i] = [hash |-> generateJobHash(J1), inserted |-> TRUE]
       /\ run["B"].calls[k] = [hash |-> generateJobHash(J1), inserted |-> FALSE]
  /\ JobRowsWith(jobsTable, generateJobHash(J1)) = 1

\* C8: insertJobsIfNotExists puts the hash of every listing it has processed
\* into exactly one of inserted and duplicates, so the two lengths add up to
\* the number processed (the batch length when the loop ends); of equivalent
\* listings in one batch only the first can be inserted (it is, unless a
\* record with the hash is already stored), the later ones are duplicates,
\* and exactly one ListingRecord with the hash is visible afterwards.
C8_BatchPartition ==
  \A r \in Runs : InBatch(r) =>
    /\ Len(run[r].inserted) + Len(run[r].duplicates) = run[r].idx - 1
    /\ run[r].pc = "users" => Len(run[r].inserted) + Len(run[r].duplicates) = Len(run[r].jobs)
    /\ \A i \in Processed(r) :
         LET h == generateJobHash(run[r].jobs[i])
             first == \A k \in Processed(r) :
                        generateJobHash(run[r].jobs[k]) = h => i <= k
             held == IF run[r].pc = "dedup" THEN tx[r].jobs ELSE EmptyBag
         IN /\ Count(h, run[r].inserted) + Count(h, run[r].duplicates)
                 = Cardinality({k \in Processed(r) : generateJobHash(run[r].jobs[k]) = h})
            /\ Count(h, run[r].inserted) <= 1
            /\ ~first => ~run[r].calls[i].inserted
            /\ first => (run[r].calls[i].inserted <=> Count(h, run[r].inserted) = 1)
            /\ JobRowsWith(jobsTable (+) held, h) = 1

\* A committed batch held J1 and then its cross-posting J2: the first was
\* inserted, the second reported as a duplicate, one record is stored.
C8_Witness ==
  \E r \in Runs :
    /\ run[r].pc = "users"
    /\ run[r].jobs = <<J1, J2>>
    /\ run[r].inserted = <<generateJobHash(J1)>>
    /\ run[r].duplicates = <<generateJobHash(J2)>>
    /\ JobRowsWith(jobsTable, generateJobHash(J1)) = 1

\* C9: deduplicateAndStore is all-or-nothing: the inserts of a batch reach
\* the stored set only in the step that commits the batch, and the step in
\* which a statement of the batch fails leaves the stored set as it was,
\* keeps none of the batch's rows, and ends the run with the failure response
\* (the fault is rethrown to the handler).
C9_AllOrNothing ==
  [][/\ jobsTable' # jobsTable =>
          \E q \in Runs : run[q].pc = "dedup" /\ run'[q].pc = "users"
     /\ \A r \in Runs : (run[r].pc = "dedup" /\ run'[r].pc = "done") =>
          /\ jobsTable' = jobsTable
          /\ tx'[r] = NoTx
          /\ run'[r].resp = Failure]_vars

\* A batch failed after one of its inserts had returned inserted=true, and no
\* record with that hash is stored.
C9_Witness ==
  \E r \in Runs :
    /\ run[r].pc = "done" /\ run[r].resp = Failure
    /\ \E i \in DOMAIN run[r].calls :
         /\ run[r].calls[i].inserted
         /\ JobRowsWith(jobsTable, run[r].calls[i].hash) = 0

\* ------------------------------------------------------- claims on delivery
\* the candidate whose markAsSent was the last to return in run r's call
LastMarked(r) ==
  run[r].limited[IF run[r].pc = "send" THEN run[r].ci ELSE run[r].ci - 1].hash

\* markAsSent has returned false (the record exists) for run r's last candidate
MarkReturnedFalse(r) ==
  /\ run[r].pc = "mark" /\ run[r].ci > 1
  /\ ~run[r].wasNew /\ ~tx[r].aborted

\* C1: in every reachable state, whatever runs overlap and however their
\* markAsSent calls interleave, user_job_notifications holds at most one
\* DeliveryRecord for each (userId, listingHash) pair.
C1_OneDeliveryRecordPerPair ==
  \A u \in Users, h \in Hashes : NotifRowsWith(notifTable, u, h) <= 1

\* One record is committed for a pair and a later markAsSent for the same
\* pair has been turned away by ON CONFLICT DO NOTHING.
C1_Witness ==
  \E r \in Runs :
    /\ MarkReturnedFalse(r)
    /\ NotifRowsWith(notifTable, run[r].user, LastMarked(r)) = 1

\* C2: if runs are terminated abruptly at any point of
\* sendNotificationsToUser, no (user, listing) pair is sent to the channel
\* more than once over that run and every later run.
C2_NoDuplicateSendAfterCrash ==
  \A u \in Users, h \in Hashes : sendLog[u][h] <= 1

\* C3: within a call of sendNotificationsToUser a send for a listing happens
\* only after markAsSent returned true for that listing in the same call, and
\* a listing whose markAsSent returned false is not sent.
C3_SendOnlyAfterNewMark ==
  \A r \in Runs :
    /\ run[r].pc = "send" =>
         /\ run[r].wasNew
         /\ LastMarked(r) \in run[r].marks
         /\ NotifRowsWith(tx[r].notifs, run[r].user, LastMarked(r)) = 1
    /\ \A i \in DOMAIN run[r].sends : run[r].sends[i] \in run[r].marks
    /\ MarkReturnedFalse(r) => Count(LastMarked(r), run[r].sends) = 0

\* One run has sent a listing after its new mark; the overlapping run's
\* markAsSent for the same pair returned false and it has sent nothing.
C3_Witness ==
  \E r \in Runs :
    /\ MarkReturnedFalse(r)
    /\ run[r].sends = <<>>
    /\ sendLog[run[r].user][LastMarked(r)] = 1

\* C4: when sendNotificationsToUser is called twice in sequence with the same
\* candidates and no fault, the second call sends nothing and returns 0, and
\* the ledger after it is the ledger the first call left: no record is added,
\* none is removed, and no pair has two records.
C4_SecondDispatchSendsNothing ==
  (harness.call = 2) =>
    /\ sendLog = harness.sent1
    /\ run["A"].sends = <<>>
    /\ notifTable = harness.table1
    /\ \A h \in Hashes : NotifRowsWith(notifTable, harness.user, h) <= 1
    /\ run["A"].pc = "unsent" => run["A"].ret = 0

\* The first call sent something and the second call has returned.
C4_Witness ==
  /\ harness.call = 2
  /\ run["A"].pc = "unsent"
  /\ harness.ret1 > 0
  /\ harness.table1 # EmptyBag

\* C6: insertJobIfNotExists called twice in sequence with equivalent listings,
\* the hash not being stored before the first call, returns inserted true and
\* then inserted false, both with the same hash, and exactly one record of
\* the jobs table has that hash afterwards.
C6_InsertTwice ==
  (Len(harness.results) = 2) =>
    /\ JobRowsWith(harness.store0, harness.results[1].hash) = 0
         => harness.results[1].inserted
    /\ ~harness.results[2].inserted
    /\ harness.results[1].hash = harness.results[2].hash
    /\ JobRowsWith(jobsTable, harness.results[1].hash) = 1

\* Two different spellings of a listing went through both calls.
C6_Witness ==
  /\ Len(harness.results) = 2
  /\ harness.first # harness.second
  /\ harness.results[1].inserted
  /\ ~harness.results[2].inserted

\* C10: two listings that differ only in the letter case or the leading and
\* trailing whitespace of title, company and location, or in platform, url,
\* postedAt, seniority, techStack or employmentType, get the same hash.
C10_HashIgnoresSpelling ==
  (harness.hashes # <<>>) => harness.hashes[1] = harness.hashes[2]

\* The hashes of a listing and of a variant with other case, other padding
\* and other unhashed fields have been computed.
C10_Witness ==
  /\ harness.hashes # <<>>
  /\ toLowerCase(harness.a.title) # toLowerCase(harness.b.title)
  /\ trim(harness.a.company) # trim(harness.b.company)
  /\ harness.a.platform # harness.b.platform
  /\ harness.a.techStack # harness.b.techStack

IsRegistered(u) == \E x \in BagToSet(usersTable) : x.telegram_id = u

IsStored(h) == JobRowsWith(jobsTable, h) > 0

\* C5 as stated: repeated fault-free runs deliver every stored listing to
\* every registered user exactly once - it is eventually sent, and it is
\* never sent a second time.
C5_ExactlyOnce ==
  /\ [](\A u \in Users, h \in Hashes : sendLog[u][h] <= 1)
  /\ \A u \in Users, h \in Hashes :
       (IsRegistered(u) /\ IsStored(h)) ~> (sendLog[u][h] = 1)

\* C5 (amended): repeated fault-free runs send a stored listing to a
\* registered user at most once, and a sent listing has its DeliveryRecord.
\* A run sends what its query for the user returns, each once: at most
\* maxNotificationsPerUser listings, each posted within the last 24 hours at
\* the time of the query and not yet recorded for the user. A listing that
\* leaves the 24-hour window unsent is not sent later.
C5_AtMostOnceWithinWindow ==
  /\ [](\A u \in Users, h \in Hashes :
          /\ sendLog[u][h] <= 1
          /\ NotifRowsWith(notifTable, u, h) = 1 => sendLog[u][h] = 1
          /\ sendLog[u][h] = 1 =>
               /\ IsStored(h)
               /\ NotifRowsWith(notifTable (+) tx["A"].notifs, u, h) = 1)
  /\ [](run["A"].pc = "unsent" /\ run["A"].ret >= 0 =>
          /\ run["A"].ret = Len(run["A"].limited)
          /\ run["A"].sends = [i \in DOMAIN run["A"].limited |-> run["A"].limited[i].hash])
  /\ [][run["A"].pc = "unsent" /\ run'["A"].pc = "mark" =>
          /\ IsRegistered(run'["A"].user)
          /\ Len(run'["A"].limited) <= maxNotificationsPerUser
          /\ \A i \in DOMAIN run'["A"].limited :
               /\ run'["A"].limited[i].postedAt >= now - RecencyHours
               /\ NotifRowsWith(notifTable, run'["A"].user, run'["A"].limited[i].hash) = 0
               /\ sendLog[run'["A"].user][run'["A"].limited[i].hash] = 0]_vars
  /\ [][\A u \in Users, h \in Hashes :
          (\E j \in BagToSet(jobsTable) :
             j.hash = h /\ j.postedAt < now - RecencyHours /\ sendLog[u][h] = 0)
          => sendLog'[u][h] = 0]_vars

\* A registered user has received one stored listing once, and another
\* stored listing has left the 24-hour window without being sent to them.
C5_Witness ==
  \E u \in Users : \E j, k \in BagToSet(jobsTable) :
    /\ IsRegistered(u)
    /\ run["A"].pc = "done"
    /\ sendLog[u][j.hash] = 1
    /\ sendLog[u][k.hash] = 0
    /\ k.postedAt < now - RecencyHours

\* ------------------------------------------------ claims on stored listings
\* C11: a ListingRecord, once stored, is never updated or deleted: every step
\* keeps every stored row, and a row stored with a hash that was already
\* stored is the row that was there, so the fields stay those of the first
\* successful insert even when an equivalent listing with another platform,
\* url or postedAt is processed later.
C11_RecordsImmutable ==
  [][/\ \A row \in BagToSet(jobsTable) :
          CopiesIn(row, jobsTable') = CopiesIn(row, jobsTable)
     /\ \A row \in BagToSet(jobsTable') :
          JobRowsWith(jobsTable, row.hash) > 0 => row \in BagToSet(jobsTable)]_vars

\* J1 is stored, a later batch with its cross-posting J2 (other platform,
\* url and postedAt) has committed, and the stored record is still J1's.
C11_Witness ==
  \E r \in Runs :
    /\ run[r].pc = "users"
    /\ run[r].jobs = <<J2>>
    /\ run[r].duplicates = <<generateJobHash(J2)>>
    /\ BagToSet(jobsTable) = {Row(J1)}

\* --------------------------------------------------- claims on the filter
\* part is a substring of text, letter case ignored
ContainsIgnoringCase(text, part) == includes(toUpperCase(text), toUpperCase(part))

\* some entry of the configured list is a substring of text, case ignored
AnyContained(list, text) ==
  \E i \in DOMAIN list : ContainsIgnoringCase(text, list[i])

\* the text the include keywords are matched against
SpacedText(job) == job.title \o <<" ">> \o job.company \o <<" ">> \o job.location

IncludePasses(config, job) ==
  config.jobQueryKeywords = <<>> \/ AnyContained(config.jobQueryKeywords, SpacedText(job))

ExcludePasses(config, job) ==
  config.jobExcludedKeywords = <<>>
    \/ ~AnyContained(config.jobExcludedKeywords, job.title \o <<" ">> \o job.company)

LocationPasses(config, job) ==
  config.jobLocations = <<>> \/ AnyContained(config.jobLocations, job.location)

SeniorityPasses(config, job) ==
  \/ config.jobSeniority = <<>>
  \/ job.seniority = NoSeniority
  \/ \E i \in DOMAIN config.jobSeniority :
       toUpperCase(job.seniority) = toUpperCase(config.jobSeniority[i])

EmptyPolicy(config) ==
  /\ config.jobQueryKeywords = <<>> /\ config.jobExcludedKeywords = <<>>
  /\ config.jobLocations = <<>> /\ config.jobSeniority = <<>>

\* C16: matches returns true exactly when the include, exclude, location and
\* seniority checks all pass, each an OR over its configured list that passes
\* when the list is empty; with all four lists empty it returns true.
C16_MatchesIsConjunction ==
  (harness.step >= 1) =>
    /\ harness.result <=>
         /\ IncludePasses(harness.config, harness.job)
         /\ ExcludePasses(harness.config, harness.job)
         /\ LocationPasses(harness.config, harness.job)
         /\ SeniorityPasses(harness.config, harness.job)
    /\ EmptyPolicy(harness.config) => harness.result

\* A listing has passed a policy in which all four lists are configured.
C16_Witness ==
  /\ harness.step >= 1
  /\ harness.result
  /\ harness.config.jobQueryKeywords # <<>>
  /\ harness.config.jobExcludedKeywords # <<>>
  /\ harness.config.jobLocations # <<>>
  /\ harness.config.jobSeniority # <<>>
  /\ harness.job.seniority # NoSeniority

\* C17 as stated: with include keywords configured, a listing passes the
\* include check if and only if a keyword is a case-insensitive substring of
\* the concatenation title + company + location.
C17_IncludeIffInConcatenation ==
  (harness.step >= 1 /\ harness.config.jobQueryKeywords # <<>>) =>
    (~harness.rejected.keywords <=>
       AnyContained(harness.config.jobQueryKeywords,
                    harness.job.title \o harness.job.company \o harness.job.location))

\* C17 (amended): with include keywords configured, a listing passes the
\* include check if and only if a keyword is a case-insensitive substring of
\* title, company and location joined by single spaces.
C17_IncludeIffInSpacedText ==
  (harness.step >= 1 /\ harness.config.jobQueryKeywords # <<>>) =>
    (~harness.rejected.keywords <=>
       AnyContained(harness.config.jobQueryKeywords, SpacedText(harness.job)))

\* A listing has passed the include check through a keyword that spans the
\* space between two fields and is in no way part of the plain concatenation.
C17_Witness ==
  /\ harness.step >= 1
  /\ harness.config.jobQueryKeywords # <<>>
  /\ ~harness.rejected.keywords
  /\ ~AnyContained(harness.config.jobQueryKeywords,
                   harness.job.title \o harness.job.company \o harness.job.location)

\* C18: adding an include keyword that does not match the listing never
\* turns the result of matches from false to true.
C18_AddedKeywordNeverAdmits ==
  (harness.step = 2 /\ ~ContainsIgnoringCase(SpacedText(harness.job), harness.keyword)) =>
    (harness.again => harness.result)

\* A listing that passed is rejected once a non-matching keyword is added.
C18_Witness ==
  /\ harness.step = 2
  /\ ~ContainsIgnoringCase(SpacedText(harness.job), harness.keyword)
  /\ harness.result
  /\ ~harness.again

\* C19: with seniorities configured, a listing without seniority is not
\* rejected by the seniority check, and a listing with a seniority passes the
\* check exactly when it equals, ignoring case, one of the configured values.
C19_SeniorityCheck ==
  (harness.step >= 1 /\ harness.config.jobSeniority # <<>>) =>
    /\ harness.job.seniority = NoSeniority => ~harness.rejected.seniority
    /\ harness.job.seniority # NoSeniority =>
         (~harness.rejected.seniority <=>
            \E i \in DOMAIN harness.config.jobSeniority :
              toUpperCase(harness.job.seniority) = toUpperCase(harness.config.jobSeniority[i]))

\* A listing with seniority "senior" has passed the check against the
\* configured value "Senior".
C19_Witness ==
  /\ harness.step >= 1
  /\ harness.job.seniority = senior
  /\ harness.config.jobSeniority # <<>>
  /\ senior \notin {harness.config.jobSeniority[i] : i \in DOMAIN harness.config.jobSeniority}
  /\ ~harness.rejected.seniority

\* ------------------------------------------------- claims on fetchAllJobs
FetchDone == harness.i > Len(SourceNames)

\* the first n elements of xs (none when n is not positive)
FirstPostings(xs, n) ==
  [i \in 1..(IF n < 0 THEN 0 ELSE IF n < Len(xs) THEN n ELSE Len(xs)) |-> xs[i]]

\* the jobs of the aggregate that came from the k-th source
JobsFrom(k) ==
  LET at == {i \in DOMAIN harness.acc.jobs : harness.acc.origin[i] = SourceNames[k]}
      pick[i \in 0..Len(harness.acc.jobs)] ==
        IF i = 0 THEN <<>>
        ELSE IF i \in at THEN Append(pick[i - 1], harness.acc.jobs[i]) ELSE pick[i - 1]
  IN pick[Len(harness.acc.jobs)]

\* the filtered and capped outputs of the non-failing sources among the first
\* k, in the order of the sources
RECURSIVE OutputOfOthers(_)
OutputOfOthers(k) ==
  IF k = 0 THEN <<>>
  ELSE OutputOfOthers(k - 1) \o
       (IF harness.outcomes[k].throws THEN <<>>
        ELSE filter(harness.config,
                    slice(harness.outcomes[k].jobs, harness.maxJobsPerSource)))

\* C12: when a source's fetchJobs throws, every other source is still
\* fetched, the returned jobs are exactly the filtered and capped output of
\* the non-failing sources, the failing source's stats record errors = 1 and
\* every non-failing source's stats record errors = 0.
C12_SourceIsolation ==
  FetchDone =>
    /\ Len(harness.acc.stats) = Len(SourceNames)
    /\ \A k \in DOMAIN SourceNames :
         /\ Count(SourceNames[k], harness.acc.invoked) >= 1
         /\ harness.acc.stats[k].name = SourceNames[k]
         /\ harness.acc.stats[k].errors = IF harness.outcomes[k].throws THEN 1 ELSE 0
         /\ ~harness.outcomes[k].throws =>
              harness.acc.stats[k].fetched = Len(harness.outcomes[k].jobs)
    /\ harness.acc.jobs = OutputOfOthers(Len(SourceNames))

\* The first of three sources threw, the other two were fetched after it and
\* their listings are returned.
C12_Witness ==
  /\ FetchDone
  /\ harness.outcomes[1].throws
  /\ ~harness.outcomes[2].throws /\ ~harness.outcomes[3].throws
  /\ JobsFrom(2) # <<>> /\ JobsFrom(3) # <<>>
  /\ harness.acc.stats[1].errors = 1

\* C13: within one call of fetchAllJobs each source's fetchJobs is invoked
\* exactly once, whether it succeeds or fails (not at all before its turn),
\* and a source that fails contributes no listing to the aggregate.
C13_EachSourceOnce ==
  (harness.kind = "fetch") =>
    \A k \in DOMAIN SourceNames :
      /\ Count(SourceNames[k], harness.acc.invoked) = IF k < harness.i THEN 1 ELSE 0
      /\ harness.outcomes[k].throws => Count(SourceNames[k], harness.acc.origin) = 0

\* The call is over, the second source failed and the aggregate holds
\* listings of the first and the third only.
C13_Witness ==
  /\ FetchDone
  /\ harness.outcomes[2].throws
  /\ harness.acc.invoked = SourceNames
  /\ JobsFrom(1) # <<>> /\ JobsFrom(2) = <<>> /\ JobsFrom(3) # <<>>

\* C14: the cap is applied before the filter: of each source only the first
\* maxJobsPerSource postings are passed to the filter, so a source contributes
\* at most maxJobsPerSource listings and no posting beyond the cap is returned.
C14_CapBeforeFilter ==
  FetchDone =>
    \A k \in DOMAIN SourceNames : ~harness.outcomes[k].throws =>
      /\ JobsFrom(k) = filter(harness.config,
                              FirstPostings(harness.outcomes[k].jobs, harness.maxJobsPerSource))
      /\ Len(JobsFrom(k)) <= (IF harness.maxJobsPerSource < 0 THEN 0
                               ELSE harness.maxJobsPerSource)

\* ------------------------------------------------------ claims on sources
\* C15: in every reachable state every stored ListingRecord has a title and a
\* company that are not empty or whitespace-only, whatever the sources hold.
C15_NoBlankTitleOrCompany ==
  \A row \in BagToSet(jobsTable) :
    trim(row.title) # <<>> /\ trim(row.company) # <<>>

\* ------------------------------------------- claims on the unsent query
\* stored, posted within the recency window, no DeliveryRecord for the user
Eligible(row) ==
  /\ row \in BagToSet(jobsTable)
  /\ row.postedAt >= now - RecencyHours
  /\ NotifRowsWith(notifTable, harness.userId, row.hash) = 0

\* C20: getUnsentJobsForUser(userId, limit) returns only stored listings
\* posted within the recency window that have no DeliveryRecord for userId,
\* newest first, each once, at most limit of them; an eligible listing is
\* left out only when limit listings at least as new are returned.
C20_UnsentQuery ==
  harness.done =>
    LET rows == harness.result
    IN /\ \A i \in DOMAIN rows : Eligible(rows[i])
       /\ \A i, k \in DOMAIN rows : i < k =>
            rows[i].postedAt >= rows[k].postedAt /\ rows[i] # rows[k]
       /\ Len(rows) <= harness.limit
       /\ \A row \in BagToSet(jobsTable) :
            (Eligible(row) /\ Count(row, rows) = 0) =>
              /\ Len(rows) = harness.limit
              /\ \A i \in DOMAIN rows : rows[i].postedAt >= row.postedAt

\* The query has returned a listing and left out three stored ones: one
\* beyond the limit, one with a DeliveryRecord, one older than the window.
C20_Witness ==
  /\ harness.done
  /\ harness.result # <<>>
  /\ \E a, b, c \in BagToSet(jobsTable) :
       /\ Eligible(a) /\ Count(a, harness.result) = 0
       /\ NotifRowsWith(notifTable, harness.userId, b.hash) = 1
       /\ c.postedAt < now - RecencyHours

\* ------------------------------------- claims on the dispatcher's failures
\* the last call of sendNotificationsToUser by run r has returned a count
CallReturned(r) == run[r].user # 0 /\ run[r].ret >= 0

\* candidates of the call that were newly marked and whose send completed
Delivered(r) ==
  {i \in DOMAIN run[r].limited :
     LET h == run[r].limited[i].hash
     IN /\ h \in run[r].marks
        /\ Count(h, run[r].sends) > 0
        /\ Count(h, run[r].thrown) = 0}

\* C21: the value sendNotificationsToUser returns is the number of candidates
\* for which, in that call, markAsSent returned true and the send completed
\* without throwing; skipped candidates and candidates whose send threw are
\* not counted.
C21_ReturnCountsCompletedSends ==
  \A r \in Runs : CallReturned(r) => run[r].ret = Cardinality(Delivered(r))

\* One call returned 1 after two new marks, one send that threw and one that
\* completed; the overlapping call skipped both candidates and returned 0.
C21_Witness ==
  \E r, q \in Runs :
    /\ CallReturned(r) /\ run[r].ret = 1
    /\ Cardinality(run[r].marks) = 2 /\ Len(run[r].thrown) = 1
    /\ CallReturned(q) /\ run[q].ret = 0
    /\ Len(run[q].limited) = 2 /\ run[q].marks = {}

\* the last call of sendNotificationsToUser by run r ended by throwing
CallThrew(r) == run[r].pc = "unsent" /\ run[r].user # 0 /\ run[r].ret = -1

\* C22: when the channel throws for one listing, the call goes on: every
\* candidate the loop has passed since is marked and, when its mark was new,
\* handed to the channel; the transaction is not aborted, the call does not
\* throw, and when it has returned every candidate of the capped list has
\* its committed DeliveryRecord.
C22_SendFailureIsolated ==
  \A r \in Runs :
    run[r].thrown # <<>> =>
      /\ ~tx[r].aborted
      /\ ~CallThrew(r)
      /\ \A i \in DOMAIN run[r].limited :
           LET h == run[r].limited[i].hash
           IN /\ i < run[r].ci =>
                   /\ NotifRowsWith(notifTable (+) tx[r].notifs, run[r].user, h) = 1
                   /\ h \in run[r].marks => Count(h, run[r].sends) = 1
              /\ CallReturned(r) => NotifRowsWith(notifTable, run[r].user, h) = 1

\* The send of the first of two candidates threw; the second was marked and
\* sent, the call returned 1 and both records are committed.
C22_Witness ==
  \E r \in Runs :
    /\ CallReturned(r) /\ run[r].ret = 1
    /\ Len(run[r].limited) = 2
    /\ run[r].thrown = <<run[r].limited[1].hash>>
    /\ run[r].sends = <<run[r].limited[1].hash, run[r].limited[2].hash>>
    /\ \A i \in 1..2 :
         NotifRowsWith(notifTable, run[r].user, run[r].limited[i].hash) = 1

\* C23: a storage fault of markAsSent for one listing is isolated to that
\* listing: the records of the listings the call marked before stay
\* committed when the call returns, and the candidates after the failing
\* one can still be marked (the transaction they are marked in is usable).
C23_MarkFailureIsolated ==
  \A r \in Runs :
    /\ CallReturned(r) =>
         \A h \in run[r].marks : NotifRowsWith(notifTable, run[r].user, h) = 1
    /\ (run[r].pc = "mark" /\ run[r].ci <= Len(run[r].limited)) => ~tx[r].aborted

\* ------------------------------------------------- claims on the trigger
\* the first n elements of a sequence
Prefix(xs, n) == SubSeq(xs, 1, n)

\* C24: when getUnsentJobsForUser or sendNotificationsToUser throws for one
\* user, the handler goes on: the users are processed in order, none is
\* left out, and the run ends with a success response.
C24_UserFailureIsolated ==
  \A r \in Runs :
    run[r].caught # {} =>
      /\ run[r].pc \in {"unsent", "mark", "send", "done"}
      /\ run[r].pc = "unsent" => run[r].queried = Prefix(run[r].users, run[r].ui - 1)
      /\ run[r].pc \in {"mark", "send"} =>
           run[r].queried = Prefix(run[r].users, run[r].ui)
      /\ run[r].pc = "done" =>
           /\ run[r].resp.status = 200
           /\ run[r].queried = run[r].users

\* The processing of the first of two users threw; the second user was
\* processed and received a listing, and the run answered success.
C24_Witness ==
  \E r \in Runs :
    /\ run[r].pc = "done" /\ run[r].resp.status = 200
    /\ Len(run[r].users) = 2
    /\ run[r].caught = {run[r].users[1]}
    /\ run[r].resp.notificationsSent >= 1
    /\ \E h \in Hashes : sendLog[run[r].users[2]][h] = 1

\* a cron secret is configured and the Authorization header is missing or
\* is not `Bearer <secret>`
CronRejected(req) ==
  /\ req.cronSecret # <<>>
  /\ \/ ~req.authHeader.present
     \/ req.authHeader.value # Bearer(req.cronSecret)

\* a POST to the configured webhook whose secret token is missing or different
HookRejected(hook) ==
  /\ hook.method = "POST"
  /\ hook.webhookSecret # <<>>
  /\ \/ ~hook.secret.present
     \/ hook.secret.value # hook.webhookSecret

\* C25: an unauthorized request is rejected before any pipeline work. The
\* trigger answers 401 to a request without the configured credential, in
\* the step that receives it, with no source fetched, no row written and
\* nothing sent, and the invocation does nothing afterwards; the webhook
\* answers 401 to a request whose secret token does not match, with no users
\* row written and no message sent.
C25_RejectedBeforeWork ==
  [][/\ (harness'.seen /\ CronRejected(harness'.req)) =>
          /\ run'["A"].pc = "done"
          /\ run'["A"].resp = Unauthorized
          /\ ~harness'.fetched
     /\ (~harness.seen /\ harness'.seen /\ CronRejected(harness'.req)) =>
          UNCHANGED <<jobsTable, notifTable, usersTable, sendLog, tx>>
     /\ (harness'.hook.seen /\ HookRejected(harness'.hook.req)) =>
          /\ harness'.hook.status = 401
          /\ harness'.hook.reply = NoReply
     /\ (harness'.hook # harness.hook /\ HookRejected(harness'.hook.req)) =>
          UNCHANGED <<usersTable, jobsTable, notifTable, sendLog>>]_vars

\* The trigger has answered 401 to a request without the header while a
\* listing waits for user 1, and the webhook has answered 401 to a /start of
\* user 2 with a wrong token: nothing was sent and user 2 has no row.
C25_Witness ==
  /\ harness.seen /\ CronRejected(harness.req) /\ ~harness.req.authHeader.present
  /\ run["A"].resp = Unauthorized
  /\ getUnsentJobsForUser(1, maxNotificationsPerUser) # {<<>>}
  /\ \A u \in Users, h \in Hashes : sendLog[u][h] = 0
  /\ harness.hook.seen /\ HookRejected(harness.hook.req)
  /\ harness.hook.req.secret.present
  /\ harness.hook.req.message.text = "/start"
  /\ harness.hook.status = 401
  /\ \A row \in BagToSet(usersTable) : row.telegram_id # 2

\* an accepted request in a complete environment with every toggle off
NoSourceEnabled(req) ==
  /\ ~CronRejected(req)
  /\ req.envOk
  /\ ~req.config.enableRemoteOK /\ ~req.config.enableWWR /\ ~req.config.enableWuzzuf

\* C26: when no source is enabled the trigger answers success with
\* jobsFetched, jobsStored, duplicates and notificationsSent all 0, in the
\* step that receives the request: nothing is fetched, no row is written and
\* nothing is sent, whatever is waiting to be delivered.
C26_NoSourceNoWork ==
  [][/\ (harness'.seen /\ NoSourceEnabled(harness'.req)) =>
          /\ run'["A"].pc = "done"
          /\ run'["A"].resp = Success(0, 0, 0, 0)
          /\ ~harness'.fetched
     /\ (~harness.seen /\ harness'.seen /\ NoSourceEnabled(harness'.req)) =>
          UNCHANGED <<jobsTable, notifTable, usersTable, sendLog, tx>>]_vars

\* The trigger has answered success with zeros while a stored listing of an
\* earlier run is still unsent for user 2.
C26_Witness ==
  /\ harness.seen /\ NoSourceEnabled(harness.req)
  /\ run["A"].resp = Success(0, 0, 0, 0)
  /\ getUnsentJobsForUser(2, maxNotificationsPerUser) # {<<>>}
  /\ \A h \in Hashes : sendLog[2][h] = 0

\* C27: when the batch insert of a run fails, the run answers with the
\* failure response and its error message; the run has created no
\* DeliveryRecord and sent nothing, and the ListingRecords and
\* DeliveryRecords that were committed when the run began are all there,
\* with nothing added.
C27_BatchFaultFailsRun ==
  [][(run["A"].pc = "dedup" /\ run'["A"].pc = "done") =>
       /\ run'["A"].resp = Failure
       /\ run'["A"].resp.status = 500 /\ run'["A"].resp.error = "message"
       /\ Stored' = harness.before
       /\ tx'["A"] = NoTx]_vars

\* The batch failed after an insert of a new listing had returned true:
\* the answer is the failure response and the stored rows are those of the
\* earlier runs.
C27_Witness ==
  /\ run["A"].pc = "done" /\ run["A"].resp = Failure
  /\ \E i \in DOMAIN run["A"].calls : run["A"].calls[i].inserted
  /\ harness.fetched
  /\ jobsTable = SetToBag({Row(J3)})
  /\ notifTable = SetToBag({NotifRow(1, generateJobHash(J3))})
  /\ \A u \in Users, h \in Hashes : sendLog[u][h] = 0

\* the handler is between the return of deduplicateAndStore and its response
InDelivery(r) == run[r].pc \in {"users", "unsent", "mark", "send"}

\* C28: whatever fails in a user's delivery loop, the ListingRecords the
\* run's batch insert committed stay: no step of the delivery phase changes
\* the stored listings, and every listing the batch reported as inserted is
\* stored during and after the delivery phase.
C28_DeliveryFaultKeepsListings ==
  [][/\ InDelivery("A") => jobsTable' = jobsTable
     /\ (InDelivery("A")' \/ (run'["A"].pc = "done" /\ run'["A"].resp.status = 200)) =>
          \A h \in BagToSet(observedInserts') : JobRowsWith(jobsTable', h) = 1]_vars

\* The run stored a new listing, the processing of a user then threw, and
\* the run has answered: the new listing is stored.
C28_Witness ==
  /\ run["A"].pc = "done" /\ run["A"].resp.status = 200
  /\ run["A"].resp.jobsStored = 1
  /\ run["A"].caught # {}
  /\ Cardinality(BagToSet(jobsTable)) = 2

\* success with stats (numbers) or a failure with its error message
Structured(resp) ==
  \/ /\ resp.status = 200
     /\ {resp.jobsFetched, resp.jobsStored, resp.duplicates,
         resp.notificationsSent} \subseteq Nat
  \/ /\ resp.status \in {401, 500}
     /\ resp.error \in {"message", "Unauthorized"}

\* the invocation has ended and its one response is structured
Answered == run["A"].pc = "done" /\ Structured(run["A"].resp)

\* C29: every invocation of the trigger handler ends with exactly one
\* structured response: while the handler runs nothing has been written,
\* when it has ended one response stands (a later write is refused), and a
\* handler that has received a request always reaches its end, whichever of
\* its calls throw.
C29_AlwaysOneResponse ==
  /\ [](run["A"].pc \notin {"idle", "done"} => run["A"].resp.status = 0)
  /\ [](run["A"].pc = "done" => Answered)
  /\ (harness.seen ~> Answered)

\* An invocation in which a user's processing threw and client.release()
\* threw after the success response: the response stands and the second
\* write was refused.
C29_Witness ==
  /\ Answered
  /\ run["A"].resp.status = 200 /\ run["A"].resp.refused = 1
  /\ run["A"].caught # {}

\* ------------------------------------------------- claims on the webhook
\* an authorized update with a message of a known sender, and no call fails
HookAccepted(hook) ==
  /\ hook.method = "POST"
  /\ hook.webhookSecret # <<>>
  /\ ~HookRejected(hook)
  /\ hook.message.present /\ hook.message.from # 0
  /\ hook.fault = "none"

\* the users rows of one telegram id
RowsOf(table, id) == {x \in BagToSet(table) : x.telegram_id = id}

\* C30: a register (/start) event leaves exactly one users row for the
\* sender's id, holding the profile of this event, however often it is
\* repeated; a help event and any other text leave the stored state as it
\* was and are answered with the help message.
C30_InboundEvents ==
  [][LET hook == harness'.hook.req
         m == hook.message
     IN /\ \A x \in BagToSet(usersTable') : CopiesIn(x, usersTable') = 1
        /\ \A id \in Users : Cardinality(RowsOf(usersTable', id)) <= 1
        /\ (HookAccepted(hook) /\ m.text = "/start") =>
             /\ harness'.hook.status = 200
             /\ harness'.hook.reply = Reply(m.chat, "welcome")
             /\ \E x \in RowsOf(usersTable', m.from) : x.username = m.username
             /\ \A id \in Users \ {m.from} :
                  RowsOf(usersTable', id) = RowsOf(usersTable, id)
        /\ (HookAccepted(hook) /\ m.text # "/start" /\ harness'.hook # harness.hook) =>
             /\ harness'.hook.status = 200
             /\ harness'.hook.reply = Reply(m.chat, "help")
             /\ UNCHANGED <<usersTable, jobsTable, notifTable, sendLog>>]_vars

\* A sender registered as "ann" has sent /start again as "bob": the one row
\* of the sender holds "bob".
C30_Witness ==
  /\ HookAccepted(harness.hook.req)
  /\ harness.hook.req.message.text = "/start"
  /\ harness.hook.req.message.username = "bob"
  /\ harness.hook.known = {"ann"}
  /\ \E x \in BagToSet(usersTable) :
       /\ RowsOf(usersTable, harness.hook.req.message.from) = {x}
       /\ x.username = "bob"
       /\ CopiesIn(x, usersTable) = 1

\* ------------------------------------------------- C31: the cap over a day
\* One day of a deployment: earlier invocations stored four listings, all
\* within the recency window, and the handler is triggered again and again
\* (by the scheduler, by a manual retry) while the clock stands still.
DayListings == {J1, J3, J4, J5}

DayHashes == {generateJobHash(j) : j \in DayListings}

DailyInit ==
  /\ now = 2 * TickHours
  /\ usersTable = Registered(Users)
  /\ jobsTable = SetToBag({Row(j) : j \in DayListings})
  /\ observedInserts = SetToBag(DayHashes)
  /\ notifTable = EmptyBag
  /\ tx = [r \in Runs |-> NoTx]
  /\ run = [r \in Runs |-> IdleRun]
  /\ sendLog = [u \in Users |-> [h \in DayHashes |-> 0]]
  /\ harness = "none"

DailyNext == DeliverSteps("A")

DailySpec == DailyInit /\ [][DailyNext]_vars

\* the notifications a user received since the day began
SentToday(u) == SumCopies([h \in DayHashes |-> sendLog[u][h]], DayHashes)

\* C31: a user receives at most maxNotificationsPerUser notifications per
\* day, however many times the run is triggered within that day.
C31_DailyCap ==
  \A u \in Users : SentToday(u) <= maxNotificationsPerUser

\* ------------------------------------------ C32: the seniority of a title
\* Titles are made of at most MaxWords words, in the spellings the feeds use.
TitleWords ==
  {<<"S", "e", "n", "i", "o", "r">>, <<"J", "u", "n", "i", "o", "r">>,
   <<"M", "i", "D">>, <<"d", "v">>, <<" ">>}

RECURSIVE TitlesOf(_)
TitlesOf(n) ==
  IF n = 0 THEN {<<>>}
  ELSE TitlesOf(n - 1) \cup {w \o t : w \in TitleWords, t \in TitlesOf(n - 1)}

SeniorityInit ==
  /\ now = 0
  /\ jobsTable = EmptyBag
  /\ observedInserts = EmptyBag
  /\ notifTable = EmptyBag
  /\ usersTable = EmptyBag
  /\ IdleSystem
  /\ harness \in {[kind |-> "seniority", title |-> t, done |-> FALSE,
                   seniority |-> NoSeniority] : t \in TitlesOf(MaxWords)}

ExtractSeniority ==
  /\ harness.kind = "seniority"
  /\ ~harness.done
  /\ harness' = [harness EXCEPT !.done = TRUE,
                                !.seniority = extractSeniority(harness.title)]
  /\ UNCHANGED <<now, jobsTable, notifTable, usersTable, tx, run, sendLog,
                 observedInserts>>

SeniorityNext == ExtractSeniority

SenioritySpec == SeniorityInit /\ [][SeniorityNext]_vars

\* C32: the terms are looked for in the lower-cased title in the order
\* senior, junior, mid: 'senior' wins over 'junior' and 'mid', 'junior' wins
\* when 'senior' is absent, and a title with none of the terms has no
\* seniority.
C32_SeniorityOrder ==
  (harness.kind = "seniority" /\ harness.done) =>
    LET lowerTitle == toLowerCase(harness.title)
        hasSenior == includes(lowerTitle, senior)
        hasJunior == includes(lowerTitle, junior)
        hasMid == includes(lowerTitle, mid)
    IN /\ hasSenior => harness.seniority = senior
       /\ (hasJunior /\ ~hasSenior) => harness.seniority = junior
       /\ (~hasSenior /\ ~hasJunior /\ ~hasMid) => harness.seniority = NoSeniority

\* a title with 'Junior' before 'Senior' got 'senior'
C32_Witness ==
  /\ harness.kind = "seniority" /\ harness.done
  /\ harness.title = <<"J", "u", "n", "i", "o", "r">> \o <<" ">>
                       \o <<"S", "e", "n", "i", "o", "r">>
  /\ harness.seniority = senior

\* --------------------------------------- C33: overlapping fault-free runs
\* C33: when two runs overlap in delivery for the same user with the same
\* unsent listing, neither crashes and both transactions commit, the listing
\* is sent to that user by at most one of them.
C33_OneSenderPerListing ==
  \A u \in Users : \A h \in Hashes :
    /\ sendLog[u][h] <= 1
    /\ \A r, q \in Runs :
         (r # q /\ run[r].user = u /\ run[q].user = u)
           => ~(Count(h, run[r].sends) > 0 /\ Count(h, run[q].sends) > 0)

\* both calls had the same candidates and both have committed and returned:
\* one sent them, the other skipped them all
C33_Witness ==
  \E r, q \in Runs :
    /\ r # q
    /\ CallReturned(r) /\ CallReturned(q)
    /\ run[r].user = run[q].user
    /\ run[r].limited # <<>> /\ run[r].limited = run[q].limited
    /\ Len(run[r].sends) = Len(run[r].limited)
    /\ run[q].sends = <<>>
    /\ \A i \in DOMAIN run[r].limited :
         NotifRowsWith(notifTable, run[r].user, run[r].limited[i].hash) = 1

\* ------------------------------------------- C34: a send that threw stays
\* the listing with hash h is among the rows a result of the query holds
Returns(rows, h) == \E i \in DOMAIN rows : rows[i].hash = h

\* C34: when the channel throws for a listing whose mark was new, its record
\* is committed when sendNotificationsToUser returns; from then on the record
\* stays, getUnsentJobsForUser does not return the listing for that user and
\* no run sends it again.
C34_FailedSendNeverRetried ==
  [][/\ \A r \in Runs :
          (~CallReturned(r) /\ CallReturned(r)') =>
            \A i \in DOMAIN run'[r].thrown :
              run'[r].thrown[i] \in run'[r].marks =>
                NotifRowsWith(notifTable', run'[r].user, run'[r].thrown[i]) >= 1
     /\ \A u \in Users : \A h \in Hashes :
          NotifRowsWith(notifTable, u, h) >= 1 =>
            /\ NotifRowsWith(notifTable', u, h) >= 1
            /\ sendLog'[u][h] = sendLog[u][h]
            /\ \A rows \in getUnsentJobsForUser(u, maxNotificationsPerUser)' :
                 ~Returns(rows, h)]_vars

\* the send of a newly marked listing threw and the call committed; the other
\* run then asked for the user's unsent listings and got none
C34_Witness ==
  \E r, q \in Runs :
    /\ r # q
    /\ CallReturned(r) /\ Len(run[r].thrown) >= 1
    /\ run[r].thrown[1] \in run[r].marks
    /\ NotifRowsWith(notifTable, run[r].user, run[r].thrown[1]) = 1
    /\ sendLog[run[r].user][run[r].thrown[1]] = 1
    /\ run[q].pc = "unsent" /\ run[q].user = 0
    /\ run[q].queried = <<run[r].user>>

\* ------------------------------------ C35: the hash and the '|' delimiter
\* Field values a feed may carry; some contain the character the hash input
\* is joined with.
BarFields ==
  {<<"a">>, <<"b">>, <<"c">>, <<"a", "|", "b">>, <<"b", "|", "c">>, <<"A", " ">>}

BarListings ==
  {Job(t, c, <<"R">>, "remoteok", "u", 0, NoSeniority) :
     t \in BarFields, c \in BarFields}

\* the hashes of any two such listings are computed
HashPairInit ==
  /\ IdleSystem
  /\ now = 0 /\ jobsTable = EmptyBag /\ notifTable = EmptyBag
  /\ usersTable = EmptyBag /\ observedInserts = EmptyBag
  /\ \E a \in BarListings : \E b \in BarListings :
       harness = [kind |-> "hash", a |-> a, b |-> b, hashes |-> <<>>]

HashPairSpec == HashPairInit /\ [][HashNext]_vars

LedgerRows ==
  BagToSet(notifTable) \cup UNION {BagToSet(tx[r].notifs) : r \in Runs}

\* C36: the job_hash of every delivery record is the hash of a stored
\* listing; no run creates a record for a hash that is not stored.
C36_LedgerRefersToStoredListings ==
  \A row \in LedgerRows : JobRowsWith(jobsTable, row.job_hash) = 1

\* the ledger holds records for every stored listing, and two are stored
C36_Witness ==
  /\ Cardinality(BagToSet(jobsTable)) = 2
  /\ \A j \in BagToSet(jobsTable) : NotifRowsWith(notifTable, 1, j.hash) = 1

\* ------------------------------------------------- C37: withTransaction
\* Calls of withTransaction (client.ts) by overlapping invocations, each
\* statement of which may fail.  harness.checkedOut is the number of
\* connections checked out of the pool, harness.before its value before the
\* calls; a call keeps the statements it issued, whether each succeeded, the
\* first step that failed and the error its caller received.
NoTxCall ==
  [pc |-> "idle", log |-> <<>>, acquired |-> 0, released |-> 0,
   outcome |-> "pending", failed |-> "none", error |-> "none"]

Statement(text, ok) == [text |-> text, ok |-> ok]

\* Faulty variant: release() follows the catch block instead of standing in a
\* finally, an error thrown by ROLLBACK skips it
afterRollbackUnlessThrown(ok) == IF ok THEN "release" ELSE "end"

\* lines 71-76: whether ROLLBACK returns or throws, the finally block runs
afterRollback(ok) == "release"

TxCallInit ==
  /\ IdleSystem
  /\ now = 0 /\ jobsTable = EmptyBag /\ notifTable = EmptyBag
  /\ usersTable = EmptyBag /\ observedInserts = EmptyBag
  /\ \E n \in 0..1 :
       harness = [kind |-> "pool", before |-> n, checkedOut |-> n,
                  call |-> [r \in Runs |-> NoTxCall]]

\* line 65: getPool().connect(), outside the try
Connect(r) ==
  /\ harness.call[r].pc = "idle"
  /\ \E ok \in BOOLEAN :
       harness' =
         IF ok
         THEN [harness EXCEPT !.checkedOut = @ + 1,
                 !.call[r].pc = "begin", !.call[r].acquired = 1]
         ELSE [harness EXCEPT !.call[r].pc = "end",
                 !.call[r].outcome = "threw", !.call[r].failed = "connect",
                 !.call[r].error = "connect"]

\* line 67: client.query('BEGIN')
BeginTransaction(r) ==
  /\ harness.call[r].pc = "begin"
  /\ \E ok \in BOOLEAN :
       harness' = [harness EXCEPT
         !.call[r].log = Append(@, Statement("BEGIN", ok)),
         !.call[r].pc = IF ok THEN "callback" ELSE "rollback",
         !.call[r].failed = IF ok THEN @ ELSE "BEGIN"]

\* line 68: callback(client)
Callback(r) ==
  /\ harness.call[r].pc = "callback"
  /\ \E ok \in BOOLEAN :
       harness' = [harness EXCEPT
         !.call[r].pc = IF ok THEN "commit" ELSE "rollback",
         !.call[r].failed = IF ok THEN @ ELSE "callback"]

\* lines 69-70: client.query('COMMIT'); return result
Commit(r) ==
  /\ harness.call[r].pc = "commit"
  /\ \E ok \in BOOLEAN :
       harness' = [harness EXCEPT
         !.call[r].log = Append(@, Statement("COMMIT", ok)),
         !.call[r].pc = IF ok THEN "release" ELSE "rollback",
         !.call[r].outcome = IF ok THEN "returned" ELSE @,
         !.call[r].failed = IF ok THEN @ ELSE "COMMIT"]

\* lines 72-73: client.query('ROLLBACK'); throw error.  When ROLLBACK itself
\* throws, its error takes the place of the caught one.
Rollback(r) ==
  /\ harness.call[r].pc = "rollback"
  /\ \E ok \in BOOLEAN :
       harness' = [harness EXCEPT
         !.call[r].log = Append(@, Statement("ROLLBACK", ok)),
         !.call[r].pc = afterRollback(ok),
         !.call[r].outcome = "threw",
         !.call[r].error = IF ok THEN harness.call[r].failed ELSE "ROLLBACK"]

\* lines 74-76: finally, client.release()
Release(r) ==
  /\ harness.call[r].pc = "release"
  /\ harness' = [harness EXCEPT !.checkedOut = @ - 1,
                   !.call[r].pc = "end", !.call[r].released = @ + 1]

withTransaction(r) ==
  /\ harness.kind = "pool"
  /\ \/ Connect(r)
     \/ BeginTransaction(r)
     \/ Callback(r)
     \/ Commit(r)
     \/ Rollback(r)
     \/ Release(r)
  /\ UNCHANGED <<now, jobsTable, notifTable, usersTable, tx, run, sendLog,
                 observedInserts>>

TxCallNext == \E r \in Runs : withTransaction(r)

TxCallSpec == TxCallInit /\ [][TxCallNext]_vars

\* statements of a call's log with the text, and those of them that succeeded
Issued(c, text) == Cardinality({i \in DOMAIN c.log : c.log[i].text = text})

Succeeded(c, text) ==
  Cardinality({i \in DOMAIN c.log : c.log[i].text = text /\ c.log[i].ok})

\* the calls that hold a connection
Holding ==
  {r \in Runs : harness.call[r].pc \in
                  {"begin", "callback", "commit", "rollback", "release"}}

\* C37: a call of withTransaction that returned has committed and issued no
\* ROLLBACK; one in which BEGIN, the callback or COMMIT threw has issued
\* exactly one ROLLBACK, has no successful COMMIT and throws to its caller
\* (the caught error, unless ROLLBACK threw too); the acquired connection is
\* released exactly once on every path, and the number of connections
\* checked out is back at its value before the calls once they have ended.
C37_CommitOrRollbackAndRelease ==
  harness.kind = "pool" =>
    /\ harness.checkedOut = harness.before + Cardinality(Holding)
    /\ \A r \in Runs :
         LET c == harness.call[r]
         IN c.pc = "end" =>
              /\ c.released = c.acquired
              /\ c.outcome \in {"returned", "threw"}
              /\ c.outcome = "returned" <=> c.failed = "none"
              /\ c.outcome = "returned" =>
                   Succeeded(c, "COMMIT") = 1 /\ Issued(c, "ROLLBACK") = 0
              /\ (c.outcome = "threw" /\ c.acquired = 1) =>
                   /\ Succeeded(c, "COMMIT") = 0
                   /\ Issued(c, "ROLLBACK") = 1
                   /\ c.failed \in {"BEGIN", "callback", "COMMIT"}
                   /\ Succeeded(c, "ROLLBACK") = 1 => c.error = c.failed

\* one call returned, in the other COMMIT threw and ROLLBACK threw as well;
\* both connections are back in the pool
C37_Witness ==
  /\ harness.kind = "pool"
  /\ harness.checkedOut = harness.before
  /\ \E r, q \in Runs :
       /\ harness.call[r].pc = "end" /\ harness.call[r].outcome = "returned"
       /\ harness.call[q].pc = "end" /\ harness.call[q].failed = "COMMIT"
       /\ Succeeded(harness.call[q], "ROLLBACK") = 0
       /\ harness.call[q].released = 1

\* ------------------------------------------------ C38: the run statistics
Min(a, b) == IF a < b THEN a ELSE b

RECURSIVE SumFiltered(_)
SumFiltered(stats) ==
  IF stats = <<>> THEN 0 ELSE Head(stats).filtered + SumFiltered(Tail(stats))

\* C38: for each source errors is 0 or 1 and filtered is at most
\* min(fetched, maxJobsPerSource); the number of returned jobs is the sum of
\* filtered over the sources; a success response has
\* jobsStored + duplicates = jobsFetched.
C38_StatsConsistent ==
  /\ harness.kind = "fetch" =>
       /\ \A k \in DOMAIN harness.acc.stats :
            LET st == harness.acc.stats[k]
            IN /\ st.errors \in {0, 1}
               /\ st.filtered <= Min(st.fetched, harness.maxJobsPerSource)
       /\ Len(harness.acc.jobs) = SumFiltered(harness.acc.stats)
  /\ \A r \in Runs :
       run[r].resp.status = 200 =>
         run[r].resp.jobsStored + run[r].resp.duplicates = run[r].resp.jobsFetched

\* ------------------------------- C39: registration and the welcome message
\* the last call of the webhook was a /start that reached handleStartCommand
\* and whose welcome message could not be sent
WelcomeFailed ==
  /\ harness.kind = "webhook"
  /\ harness.hook.seen
  /\ harness.hook.req.method = "POST"
  /\ harness.hook.req.webhookSecret # <<>>
  /\ secretMatches(harness.hook.req.webhookSecret, harness.hook.req.secret)
  /\ harness.hook.req.message.present
  /\ harness.hook.req.message.from # 0
  /\ harness.hook.req.message.text = "/start"
  /\ harness.hook.req.fault = "channel"

\* C39: the registration is committed before the welcome message is sent: when
\* the send throws, the webhook answers with an error, the sender's users row
\* is stored and getAllUsers, from which the next run delivers, returns the
\* sender.
C39_RegisteredBeforeWelcome ==
  WelcomeFailed =>
    LET m == harness.hook.req.message
    IN /\ harness.hook.status = 500
       /\ harness.hook.reply = NoReply
       /\ \E x \in BagToSet(usersTable) :
            /\ RowsOf(usersTable, m.from) = {x}
            /\ x.username = m.username
       /\ \A us \in getAllUsers : \E i \in DOMAIN us : us[i] = m.from

\* the sender was not registered before the call
C39_Witness ==
  /\ WelcomeFailed
  /\ harness.hook.known = {}
  /\ harness.hook.status = 500
  /\ RowsOf(usersTable, harness.hook.req.message.from) # {}

====
